---- MODULE Spec2Model ----
(***************************************************************************)
(* Model of the chart-selection engine of CortexCharts:                    *)
(*   src/pages/1_Cortex_Analyst.py  display_chart (classification, date    *)
(*                                  recovery, rule list, result display)   *)
(*   src/utils/chart_utils.py       create_chart1 .. create_chart10,       *)
(*                                  _render_kpi_tiles                      *)
(* A table (pandas DataFrame) is a row count and a sequence of columns;    *)
(* a column is its name, its dtype, the number of non-null values          *)
(* (Series.count()), the number of values pd.to_datetime(errors='coerce')  *)
(* turns into a timestamp, and whether pd.to_datetime raises on it.        *)
(***************************************************************************)
EXTENDS Integers, Sequences, FiniteSets, TLC

VARIABLES
    pc,             \* position of the host: "called" before display_chart, "returned" after
    df,             \* the query result handed to display_chart: [nrows, cols]
    df_display,     \* df.head(5000), mutated in place by date recovery
    date_cols,      \* display_chart locals after classification (lists of column names)
    numeric_cols,
    text_cols,
    chart_metadata, \* df_display.attrs['chart_metadata'] : dict archetype key -> role bindings
    attrs_writes,   \* history: the archetype keys assigned to attrs['chart_metadata'], in order
    builders,       \* history: the create_chartN builders called, in order
    alt_chart,      \* display_chart local alt_chart at the end of the rule list
    host,           \* the calls made on the rendering host (streamlit), in order
    session_state,  \* st.session_state restricted to the selector keys
    selection_before, \* st.session_state as the last operation found it
    first_pass,     \* the three lists of the classification pass before the last one
    chart_code,     \* display_chart local chart_code: the text
                    \* generate_chart_code_for_dataframe returned
    value,          \* _render_kpi_tiles local value: the number a tile shows
    formatted_value \* _render_kpi_tiles local formatted_value

vars == <<pc, df, df_display, date_cols, numeric_cols, text_cols, chart_metadata,
          attrs_writes, builders, alt_chart, host, session_state,
          selection_before, first_pass, chart_code, value, formatted_value>>

----------------------------------------------------------------------------
(* Bounds of the model *)

\* largest number of columns of a query result
MaxCols == 5

\* row counts of the query results: a single row (KPI rule) and ten rows
\* (9 of 10 and 8 of 9 parseable values for the date-recovery threshold)
RowCounts == {1, 10}

----------------------------------------------------------------------------
(* Sequence helpers (Python list operations) *)

Range(s) == {s[i] : i \in 1..Len(s)}

\* s[:k]
Take(s, k) == SubSeq(s, 1, IF Len(s) < k THEN Len(s) ELSE k)

\* `t in s` for strings given as character sequences
Contains(s, t) ==
    \E i \in 1..(Len(s) - Len(t) + 1) : SubSeq(s, i, i + Len(t) - 1) = t

IsInjective(s) == \A i, j \in 1..Len(s) : s[i] = s[j] => i = j

Max0(n) == IF n < 0 THEN 0 ELSE n

----------------------------------------------------------------------------
(* Column names.  A name is a string; Spell gives its characters, so that   *)
(* `term in col.lower()` is computed and not looked up.                     *)

Spell(name) ==
    CASE name = "cell_id_display" ->
            <<"c","e","l","l","_","i","d","_","d","i","s","p","l","a","y">>
      [] name = "total_tickets" ->
            <<"t","o","t","a","l","_","t","i","c","k","e","t","s">>
      [] name = "avg_sentiment" ->
            <<"a","v","g","_","s","e","n","t","i","m","e","n","t">>
      [] name = "order_date" -> <<"o","r","d","e","r","_","d","a","t","e">>
      [] name = "shipped"    -> <<"s","h","i","p","p","e","d">>
      [] name = "sales"      -> <<"s","a","l","e","s">>
      [] name = "Holiday"    -> <<"H","o","l","i","d","a","y">>

\* str.lower() on one character
LowerChar(ch) == IF ch = "H" THEN "h" ELSE ch

lower(chars) == [i \in 1..Len(chars) |-> LowerChar(chars[i])]

date_related_terms ==
    << <<"d","a","t","e">>, <<"m","o","n","t","h">>, <<"y","e","a","r">>,
       <<"d","a","y">>, <<"t","i","m","e">>, <<"d","t">>,
       <<"p","e","r","i","o","d">> >>

\* the column names of the model
ColumnNames ==
    {"cell_id_display", "total_tickets", "avg_sentiment", "order_date",
     "shipped", "sales", "Holiday"}

\* the names for which any(term in col_lower for term in date_related_terms)
\* holds (lines 388-389)
DateRelatedNames ==
    {name \in ColumnNames :
        \E k \in 1..Len(date_related_terms) :
            Contains(lower(Spell(name)), date_related_terms[k])}

has_date_related_name(name) == name \in DateRelatedNames

telco_columns == {"cell_id_display", "total_tickets", "avg_sentiment"}

----------------------------------------------------------------------------
(* Tables *)

Col(name, dtype, nonnull, parsed, raises) ==
    [name |-> name, dtype |-> dtype, nonnull |-> nonnull, parsed |-> parsed,
     raises |-> raises]

\* The columns a query result of n rows is built from.  Integer and float
\* columns convert to timestamps value by value (epoch offsets), a bool
\* column makes pd.to_datetime raise, "category" stands for the dtypes that
\* are neither numeric, datetime, string nor object.  The object columns
\* hold text (no value parses), dates (every value parses), dates with one
\* bad value (n-1 of n parse), or dates with one bad and one null value (n-2
\* of n-1 parse; for a single row: the null alone).
ColumnPool(n) ==
    { Col("cell_id_display", "object", n, 0, FALSE),
      Col("total_tickets", "int64", n, n, FALSE),
      Col("total_tickets", "object", n, 0, FALSE),
      Col("avg_sentiment", "float64", n, n, FALSE),
      Col("order_date", "datetime64", n, n, FALSE),
      Col("order_date", "object", n, Max0(n - 1), FALSE),
      Col("order_date", "object", Max0(n - 1), Max0(n - 2), FALSE),
      Col("shipped", "datetime64", n, n, FALSE),
      Col("shipped", "object", n, 0, FALSE),
      Col("shipped", "object", n, n, FALSE),
      Col("shipped", "category", n, 0, FALSE),
      Col("sales", "float64", n, n, FALSE),
      Col("Holiday", "datetime64", n, n, FALSE),
      Col("Holiday", "bool", n, 0, TRUE) }

ColNames(cols) == [i \in 1..Len(cols) |-> cols[i].name]

\* df[name]
ColumnOf(table, name) ==
    LET i == CHOOSE j \in 1..Len(table.cols) : table.cols[j].name = name
    IN  table.cols[i]

HasColumn(table, name) == name \in Range(ColNames(table.cols))

----------------------------------------------------------------------------
(* Column classification: display_chart lines 375-415 *)

is_numeric_dtype(col) == col.dtype \in {"int64", "float64", "bool"}

is_datetime64_any_dtype(col) == col.dtype = "datetime64"

\* pd.api.types.is_string_dtype(s) or pd.api.types.is_object_dtype(s)
is_string_or_object_dtype(col) == col.dtype = "object"

\* [col for col in df_display.columns if pred(df_display[col])]
NamesWhere(cols, pred(_)) == ColNames(SelectSeq(cols, pred))

\* line 375
detect_numeric_cols(cols) == NamesWhere(cols, is_numeric_dtype)

\* line 378
detect_date_cols(cols) == NamesWhere(cols, is_datetime64_any_dtype)

\* lines 383-395: columns with a date-related name, then the other
\* string/object columns
potential_date_cols(cols) ==
    LET named(c) == has_date_related_name(c.name)
        other(c) == ~has_date_related_name(c.name) /\ is_string_or_object_dtype(c)
    IN  NamesWhere(cols, named) \o NamesWhere(cols, other)

\* the threshold test with a strict comparison
reaches_threshold_strict(col) ==
    /\ ~col.raises
    /\ col.nonnull > 0
    /\ 10 * col.parsed > 9 * col.nonnull

\* lines 399-411: the conversion does not raise, the column has a non-null
\* value and temp_series.count() / non_null_count >= 0.9.  Both counts are
\* at most 5000, so the float comparison agrees with 10*parsed >= 9*non_null.
reaches_threshold(col) ==
    /\ ~col.raises
    /\ col.nonnull > 0
    /\ 10 * col.parsed >= 9 * col.nonnull

\* line 407: df_display[col] = temp_series; the values that did not parse
\* are NaT
promote(table, name) ==
    [table EXCEPT !.cols =
        [i \in 1..Len(table.cols) |->
            IF table.cols[i].name = name
            THEN [table.cols[i] EXCEPT !.dtype = "datetime64",
                                       !.nonnull = table.cols[i].parsed]
            ELSE table.cols[i]]]

\* the loop without its break: every candidate that reaches the threshold
\* is promoted
RECURSIVE recover_dates_no_break(_, _, _)
recover_dates_no_break(table, dates, cands) ==
    IF cands = << >> THEN [df_display |-> table, date_cols |-> dates]
    ELSE IF reaches_threshold(ColumnOf(table, Head(cands)))
         THEN recover_dates_no_break(promote(table, Head(cands)),
                                     Append(dates, Head(cands)), Tail(cands))
         ELSE recover_dates_no_break(table, dates, Tail(cands))

\* lines 398-411: the loop over the candidates.  A candidate on which the
\* conversion raises, or that stays under the threshold, is skipped; the
\* first one that reaches the threshold is stored in the table and appended
\* to date_cols, and the loop breaks.
RECURSIVE recover_dates(_, _, _)
recover_dates(table, dates, cands) ==
    IF cands = << >> THEN [df_display |-> table, date_cols |-> dates]
    ELSE IF reaches_threshold(ColumnOf(table, Head(cands)))
         THEN [df_display |-> promote(table, Head(cands)),
               date_cols  |-> Append(dates, Head(cands))]
         ELSE recover_dates(table, dates, Tail(cands))

\* lines 378-411: genuine datetime columns, and date recovery when there is
\* none
detect_dates(table) ==
    LET genuine == detect_date_cols(table.cols)
    IN  IF genuine # << >>
        THEN [df_display |-> table, date_cols |-> genuine]
        ELSE recover_dates(table, genuine, potential_date_cols(table.cols))

\* lines 414-415
detect_text_cols(cols, numeric, dates) ==
    LET textual(c) == /\ c.name \notin Range(numeric)
                      /\ c.name \notin Range(dates)
                      /\ is_string_or_object_dtype(c)
    IN  NamesWhere(cols, textual)

\* lines 375-415 as a whole
classify(table) ==
    LET numeric == detect_numeric_cols(table.cols)
        d       == detect_dates(table)
    IN  [df_display   |-> d.df_display,
         numeric_cols |-> numeric,
         date_cols    |-> d.date_cols,
         text_cols    |-> detect_text_cols(d.df_display.cols, numeric, d.date_cols)]

----------------------------------------------------------------------------
(* Chart builders: src/utils/chart_utils.py.  A builder returns the chart   *)
(* object (None when an exception was caught), the host calls it made and   *)
(* the selector state it leaves.                                            *)

AltChart(mark, x, y, y2, color, size, shape, tooltip) ==
    [kind |-> "chart", mark |-> mark, x |-> x, y |-> y, y2 |-> y2,
     color |-> color, size |-> size, shape |-> shape, tooltip |-> tooltip]

None == [kind |-> "None"]

\* the flag display_chart stores in alt_chart after calling create_chart10
KPI_RENDERED == [kind |-> "__KPI_RENDERED__"]

Built(chart, calls, ss) == [chart |-> chart, calls |-> calls, session_state |-> ss]

\* an exception on its way up the call stack
Raise(exc) == [kind |-> "raised", exc |-> exc]

\* None + ':T' (a role the bindings do not hold), None in a tooltip list
TypeError == Raise("TypeError")

\* df[col_name] for a name that is not a column
KeyError == Raise("KeyError")

\* a call without a handler around it: what is raised goes to the caller
no_handler(returned) == returned

\* try: ... except Exception as e: print(...); return None
except_Exception(returned) ==
    IF returned.kind = "raised" THEN None ELSE returned

\* every role of `roles` is in the bindings: cols.get(role) is not None
Bound(cols, roles) == roles \subseteq DOMAIN cols

symbols ==
    <<"circle", "square", "cross", "diamond", "triangle-up", "triangle-down",
      "triangle-right", "triangle-left", "arrow", "wedge", "stroke">>

create_chart1(table, cols, ss) ==
    IF Bound(cols, {"date_col", "numeric_col"})
    THEN Built(AltChart("bar", <<cols.date_col, "T", "ascending">>,
                        <<cols.numeric_col, "Q", "">>, << >>, << >>, << >>, << >>,
                        <<cols.date_col, cols.numeric_col>>),
               <<"st.text">>, ss)
    ELSE Built(except_Exception(TypeError), <<"st.text">>, ss)

create_chart2(table, cols, ss) ==
    IF Bound(cols, {"date_col", "num_col1", "num_col2"})
    THEN Built(AltChart("line(blue)+line(red),y=independent",
                        <<cols.date_col, "T", "ascending">>,
                        <<cols.num_col1, "Q", "">>, <<cols.num_col2, "Q", "">>,
                        << >>, << >>, << >>,
                        <<cols.date_col, cols.num_col1, cols.date_col, cols.num_col2>>),
               <<"st.text">>, ss)
    ELSE Built(except_Exception(TypeError), <<"st.text">>, ss)

create_chart3(table, cols, ss) ==
    IF Bound(cols, {"date_col", "text_col", "numeric_col"})
    THEN Built(AltChart("bar", <<cols.date_col, "T", "ascending">>,
                        <<cols.numeric_col, "Q", "zero">>, << >>,
                        <<cols.text_col, "N">>, << >>, << >>,
                        <<cols.date_col, cols.text_col, cols.numeric_col>>),
               <<"st.text">>, ss)
    ELSE Built(except_Exception(TypeError), <<"st.text">>, ss)

\* str(n) for a non-negative integer, as characters
RECURSIVE str_int(_)
str_int(n) ==
    LET digit(d) == <<"0", "1", "2", "3", "4", "5", "6", "7", "8", "9">>[d + 1]
    IN  IF n < 10 THEN <<digit(n)>> ELSE Append(str_int(n \div 10), digit(n % 10))

\* str(df.shape): "(rows, columns)"
str_shape(table) ==
    <<"(">> \o str_int(table.nrows) \o <<",", " ">>
           \o str_int(Len(table.cols)) \o <<")">>

\* str(names) for a list of strings: "['a', 'b']"
RECURSIVE str_list_items(_)
str_list_items(names) ==
    IF names = << >> THEN << >>
    ELSE <<"'">> \o Spell(Head(names)) \o <<"'">>
         \o (IF Tail(names) = << >> THEN << >> ELSE <<",", " ">>)
         \o str_list_items(Tail(names))

str_list(names) == <<"[">> \o str_list_items(names) \o <<"]">>

\* the key taken of the column names alone
widget_key_columns_only(prefix, table) ==
    [widget |-> prefix, hash |-> str_list(ColNames(table.cols))]

\* f"{prefix}_{hash(str(df.shape) + str(df.columns.tolist()))}".  The hash
\* is kept as the text it is taken of: equal texts give equal keys, and two
\* different texts are taken to have different hash values.
\* every selector of a table under one key, whatever its prefix
widget_key_shared(prefix, table) ==
    [widget |-> "select", hash |-> str_shape(table) \o str_list(ColNames(table.cols))]

widget_key(prefix, table) ==
    [widget |-> prefix,
     hash |-> str_shape(table) \o str_list(ColNames(table.cols))]

\* st.session_state[key] = option
ss_set(ss, key, option) ==
    [k \in DOMAIN ss \cup {key} |-> IF k = key THEN option ELSE ss[k]]

\* the initialisation without the reset of a stored value that is not an
\* option
selector_init_keep_stale(ss, key, opts) ==
    IF key \notin DOMAIN ss THEN ss_set(ss, key, opts[1]) ELSE ss

\* create_chart4 lines 212-217, create_chart9 lines 424-436: initialise the
\* selection when the key is unseen, reset it when it is not an option
selector_init(ss, key, opts) ==
    IF key \notin DOMAIN ss THEN ss_set(ss, key, opts[1])
    ELSE IF ss[key] \notin Range(opts) THEN ss_set(ss, key, opts[1])
    ELSE ss

create_chart4(table, cols, ss) ==
    LET given    == IF "text_cols" \in DOMAIN cols THEN cols.text_cols ELSE << >>
        others(c) == /\ ("date_col" \in DOMAIN cols => c.name # cols.date_col)
                     /\ ("numeric_col" \in DOMAIN cols => c.name # cols.numeric_col)
        opts     == IF given # << >> THEN given ELSE NamesWhere(table.cols, others)
        key      == widget_key("chart4_select", table)
        ss1      == selector_init(ss, key, opts)
        sel      == ss1[key]
    IN  IF opts = << >> THEN Built(None, <<"st.text">>, ss)
        ELSE IF Bound(cols, {"date_col", "numeric_col"})
        THEN Built(AltChart("bar", <<cols.date_col, "T", "ascending">>,
                            <<cols.numeric_col, "Q", "zero">>, << >>,
                            <<sel, "N">>, << >>, << >>,
                            <<cols.date_col, sel, cols.numeric_col>>),
                   <<"st.text", "st.selectbox">>, ss1)
        ELSE Built(except_Exception(TypeError), <<"st.text", "st.selectbox">>, ss1)

\* create_chart5 reading a role the bindings do not hold: the concatenation
\* None + ':N' raises and the handler returns None
create_chart5_wrong_role(table, cols, ss) ==
    IF Bound(cols, {"num_col1", "num_col2", "text_col1"})
    THEN Built(AltChart("circle(size=100)", <<cols.num_col1, "Q", "">>,
                        <<cols.num_col2, "Q", "">>, << >>,
                        <<cols.text_col1, "N">>, << >>, << >>,
                        <<cols.text_col1, cols.num_col1, cols.num_col2>>),
               <<"st.text">>, ss)
    ELSE Built(except_Exception(TypeError), <<"st.text">>, ss)

\* create_chart5 with a body that fails: the handler returns None
create_chart5_failing(table, cols, ss) == Built(None, <<"st.text">>, ss)

create_chart5(table, cols, ss) ==
    IF Bound(cols, {"num_col1", "num_col2", "text_col"})
    THEN Built(AltChart("circle(size=100)", <<cols.num_col1, "Q", "">>,
                        <<cols.num_col2, "Q", "">>, << >>,
                        <<cols.text_col, "N">>, << >>, << >>,
                        <<cols.text_col, cols.num_col1, cols.num_col2>>),
               <<"st.text">>, ss)
    ELSE Built(except_Exception(TypeError), <<"st.text">>, ss)

create_chart6(table, cols, ss) ==
    IF Bound(cols, {"num_col1", "num_col2", "text_col1", "text_col2"})
    THEN Built(AltChart("point(size=100)", <<cols.num_col1, "Q", "">>,
                        <<cols.num_col2, "Q", "">>, << >>,
                        <<cols.text_col1, "N">>, << >>,
                        <<cols.text_col2, "N", symbols>>,
                        <<cols.text_col1, cols.text_col2, cols.num_col1, cols.num_col2>>),
               <<"st.text">>, ss)
    ELSE Built(except_Exception(TypeError), <<"st.text">>, ss)

create_chart7(table, cols, ss) ==
    IF Bound(cols, {"num_col1", "num_col2", "num_col3", "text_col"})
    THEN Built(AltChart("circle", <<cols.num_col1, "Q", "">>,
                        <<cols.num_col2, "Q", "">>, << >>,
                        <<cols.text_col, "N">>, <<cols.num_col3, "Q">>, << >>,
                        <<cols.text_col, cols.num_col1, cols.num_col2, cols.num_col3>>),
               <<"st.text">>, ss)
    ELSE Built(except_Exception(TypeError), <<"st.text">>, ss)

create_chart8(table, cols, ss) ==
    IF Bound(cols, {"num_col1", "num_col2", "num_col3", "text_col1", "text_col2"})
    THEN Built(AltChart("point", <<cols.num_col1, "Q", "">>,
                        <<cols.num_col2, "Q", "">>, << >>,
                        <<cols.text_col1, "N">>, <<cols.num_col3, "Q">>,
                        <<cols.text_col2, "N", symbols>>,
                        <<cols.text_col1, cols.text_col2, cols.num_col1,
                          cols.num_col2, cols.num_col3>>),
               <<"st.text">>, ss)
    ELSE Built(except_Exception(TypeError), <<"st.text">>, ss)

\* create_chart9.  A missing numeric_col does not raise in the f-string of
\* line 462 but puts None into the tooltip list of line 464, which encode()
\* rejects; the handler of line 468 returns None.
create_chart9(table, cols, ss) ==
    LET opts  == IF "text_cols" \in DOMAIN cols THEN cols.text_cols ELSE << >>
        key   == widget_key("chart9_select", table)
        ckey  == widget_key("chart9_color_select", table)
        ss1   == selector_init(ss, key, opts)
        ss2   == selector_init(ss1, ckey, opts)
        sel   == ss2[key]
        color == ss2[ckey]
    IN  IF opts = << >> THEN Built(None, << >>, ss)
        ELSE IF Bound(cols, {"numeric_col"})
        THEN Built(AltChart("bar", <<sel, "N", "-y">>,
                            <<cols.numeric_col, "Q", "zero">>, << >>,
                            <<color, "N">>, << >>, << >>,
                            <<sel, color, cols.numeric_col>>),
                   <<"st.text", "st.columns", "st.selectbox", "st.selectbox">>, ss2)
        ELSE Built(except_Exception(TypeError),
                   <<"st.text", "st.columns", "st.selectbox", "st.selectbox">>, ss2)

----------------------------------------------------------------------------
(* KPI tiles: create_chart10 and _render_kpi_tiles *)

\* the most tiles one call lays out
MaxTiles == 4

Min(a, b) == IF a < b THEN a ELSE b

\* _render_kpi_tiles lines 577-585: value = df[col_name].iloc[0] is read and
\* formatted; a missing column raises KeyError, a value that is not a number
\* (a timestamp, a string) raises TypeError in abs()
tile_renders(table, name) ==
    HasColumn(table, name) /\ is_numeric_dtype(ColumnOf(table, name))

\* what the loop of _render_kpi_tiles raises: KeyError at line 577 for a
\* missing column, TypeError at line 580 for a value abs() does not take
RECURSIVE tile_error(_, _)
tile_error(table, names) ==
    IF names = << >> THEN None
    ELSE IF ~HasColumn(table, Head(names)) THEN KeyError
    ELSE IF ~is_numeric_dtype(ColumnOf(table, Head(names))) THEN TypeError
    ELSE tile_error(table, Tail(names))

\* cols.get('labels', {}) when the bindings have no labels
NoLabels == [name \in {} |-> ""]

\* every tile labelled with its column name, whatever labels were given
label_of_column(labels, name) == name

\* line 588: label = labels.get(col_name, col_name)
label_of(labels, name) == IF name \in DOMAIN labels THEN labels[name] ELSE name

\* the st.metric calls of the loop of lines 575-594, up to the first column
\* that raises
RECURSIVE metric_calls(_, _, _)
metric_calls(table, names, labels) ==
    IF names = << >> THEN << >>
    ELSE IF tile_renders(table, Head(names))
         THEN <<[call |-> "st.metric", col |-> Head(names),
                 label |-> label_of(labels, Head(names))]>>
                \o metric_calls(table, Tail(names), labels)
         ELSE << >>

\* _render_kpi_tiles: the tiles it drew and whether it raised
render_kpi_tiles(table, names, labels, n_cols) ==
    LET shown == Take(names, n_cols)
        drawn == metric_calls(table, shown, labels)
    IN  [tiles |-> drawn, raised |-> Len(drawn) < Len(shown)]

\* detect_column_types(df)['numeric_cols'], used when the bindings name none
auto_numeric_cols(table) == detect_numeric_cols(table.cols)

\* the st.warning calls of create_chart10, lines 496 and 511
single_row_warning == "st.warning:KPI tiles are designed for single row results only."
no_numeric_warning == "st.warning:No numeric columns found for KPI tiles."

\* create_chart10 without the row-count test of lines 495-497
create_chart10_rows_unchecked(table, cols, render_directly) ==
    LET names  == IF "numeric_cols" \in DOMAIN cols THEN cols.numeric_cols
                  ELSE auto_numeric_cols(table)
        n_cols == Min(Len(names), MaxTiles)
        labels == IF "numeric_cols" \in DOMAIN cols /\ "labels" \in DOMAIN cols
                  THEN cols.labels ELSE NoLabels
        first  == render_kpi_tiles(table, names, labels, n_cols)
        kpi    == [kind |-> "kpi_tiles", numeric_cols |-> names, labels |-> labels,
                   n_cols |-> n_cols]
    IN  IF names = << >>
        THEN [result |-> None, tiles |-> << >>, warned |-> no_numeric_warning]
        ELSE IF ~render_directly
        THEN [result |-> kpi, tiles |-> << >>, warned |-> ""]
        ELSE [result |-> IF first.raised THEN None ELSE kpi, tiles |-> first.tiles,
              warned |-> ""]

\* create_chart10.  render_directly is the outcome of the frame inspection
\* of lines 531-538: TRUE when the caller is display_chart.  An exception in
\* the first rendering is caught by the handler of line 544, which renders
\* again; an exception there is caught by the handler of line 552.  warned
\* is the st.warning call made ("" when there is none).
create_chart10(table, cols, render_directly) ==
    LET names  == IF "numeric_cols" \in DOMAIN cols THEN cols.numeric_cols
                  ELSE auto_numeric_cols(table)
        n_cols == Min(Len(names), MaxTiles)
        labels == IF "numeric_cols" \in DOMAIN cols /\ "labels" \in DOMAIN cols
                  THEN cols.labels ELSE NoLabels
        first  == render_kpi_tiles(table, names, labels, n_cols)
        second == render_kpi_tiles(table, names, labels, n_cols)
        kpi    == [kind |-> "kpi_tiles", numeric_cols |-> names, labels |-> labels,
                   n_cols |-> n_cols]
    IN  IF table.nrows # 1
        THEN [result |-> None, tiles |-> << >>, warned |-> single_row_warning]
        ELSE IF names = << >>
        THEN [result |-> None, tiles |-> << >>, warned |-> no_numeric_warning]
        ELSE IF ~render_directly
        THEN [result |-> kpi, tiles |-> << >>, warned |-> ""]
        ELSE IF ~first.raised
        THEN [result |-> kpi, tiles |-> first.tiles, warned |-> ""]
        ELSE IF ~second.raised
        THEN [result |-> kpi, tiles |-> first.tiles \o second.tiles, warned |-> ""]
        ELSE [result |-> except_Exception(tile_error(table, Take(names, n_cols))),
              tiles |-> first.tiles \o second.tiles, warned |-> ""]

----------------------------------------------------------------------------
(* The rule list of display_chart, lines 425-596 *)

Metadata(key, cols) == [key |-> key, cols |-> cols]

\* no 'chart_metadata' entry in df_display.attrs
NoMetadata == [key |-> "none"]

\* line 427
telco_rule(table) == telco_columns \subseteq Range(ColNames(table.cols))

telco_binding ==
    [num_col1 |-> "total_tickets", num_col2 |-> "avg_sentiment",
     text_col |-> "cell_id_display"]

\* the conditions of the if/elif chain, over len(df_display), len(date_cols),
\* len(text_cols), len(numeric_cols)
kpi_rule(rows, d, t, n) == rows = 1 /\ n >= 1 /\ n <= 4 /\ t <= 1
\* rule 1 with the text-column count mistyped
rule1_one_text(d, t, n) == d = 1 /\ t = 1 /\ n = 1
rule1(d, t, n) == d = 1 /\ t = 0 /\ n = 1
rule2(d, t, n) == d = 1 /\ t = 0 /\ n = 2
rule3(d, t, n) == d = 1 /\ t = 1 /\ n = 1
rule4(d, t, n) == d = 1 /\ t >= 2 /\ n = 1
rule5(d, t, n) == d = 0 /\ t = 1 /\ n = 2
rule6(d, t, n) == d = 0 /\ t = 2 /\ n = 2
rule7(d, t, n) == d = 0 /\ t = 1 /\ n = 3
\* rule 8 accepting a single text column
rule8_one_text(d, t, n) == d = 0 /\ n >= 3 /\ t >= 1
rule8(d, t, n) == d = 0 /\ n >= 3 /\ t >= 2
\* rule 9 without the test for date columns
rule9_any_dates(d, t, n) == n = 1
rule9(d, t, n) == d = 0 /\ n = 1

\* the chain with the KPI rule tested after the count rules
taken_branch_kpi_last(rows, d, t, n) ==
    IF rule1(d, t, n) THEN "chart1_columns"
    ELSE IF rule2(d, t, n) THEN "chart2_columns"
    ELSE IF rule3(d, t, n) THEN "chart3_columns"
    ELSE IF rule4(d, t, n) THEN "chart4_columns"
    ELSE IF rule5(d, t, n) THEN "chart5_columns"
    ELSE IF rule6(d, t, n) THEN "chart6_columns"
    ELSE IF rule7(d, t, n) THEN "chart7_columns"
    ELSE IF rule8(d, t, n) THEN "chart8_columns"
    ELSE IF rule9(d, t, n) THEN "chart9_columns"
    ELSE IF kpi_rule(rows, d, t, n) THEN "chart10_columns"
    ELSE "none"

\* the branch of the chain of lines 442-596 that is taken
taken_branch(rows, d, t, n) ==
    IF kpi_rule(rows, d, t, n) THEN "chart10_columns"
    ELSE IF rule1(d, t, n) THEN "chart1_columns"
    ELSE IF rule2(d, t, n) THEN "chart2_columns"
    ELSE IF rule3(d, t, n) THEN "chart3_columns"
    ELSE IF rule4(d, t, n) THEN "chart4_columns"
    ELSE IF rule5(d, t, n) THEN "chart5_columns"
    ELSE IF rule6(d, t, n) THEN "chart6_columns"
    ELSE IF rule7(d, t, n) THEN "chart7_columns"
    ELSE IF rule8(d, t, n) THEN "chart8_columns"
    ELSE IF rule9(d, t, n) THEN "chart9_columns"
    ELSE "none"

\* line 580
non_numeric_cols(c) ==
    LET other(col) == col.name \notin Range(c.numeric_cols)
    IN  NamesWhere(c.df_display.cols, other)

\* rule 4 keeping two text columns only
available_text_cols_first_two(c) ==
    LET kept(name) == name \notin Range(c.date_cols)
    IN  Take(SelectSeq(c.text_cols, kept), 2)

\* line 499
available_text_cols(c) ==
    LET kept(name) == name \notin Range(c.date_cols)
    IN  SelectSeq(c.text_cols, kept)

\* the most text columns rule 9 stores (line 586)
MaxChart9TextCols == 5

\* the role bindings each branch stores in chart_metadata
bindings(key, c) ==
    LET dc == c.date_cols
        nc == c.numeric_cols
        tc == c.text_cols
    IN  CASE key = "chart10_columns" -> [numeric_cols |-> nc]
          [] key = "chart1_columns" -> [date_col |-> dc[1], numeric_col |-> nc[1]]
          [] key = "chart2_columns" ->
                [date_col |-> dc[1], num_col1 |-> nc[1], num_col2 |-> nc[2]]
          [] key = "chart3_columns" ->
                [date_col |-> dc[1], text_col |-> tc[1], numeric_col |-> nc[1]]
          [] key = "chart4_columns" ->
                [date_col |-> dc[1], text_cols |-> available_text_cols(c),
                 numeric_col |-> nc[1]]
          [] key = "chart5_columns" ->
                [num_col1 |-> nc[1], num_col2 |-> nc[2], text_col |-> tc[1]]
          [] key = "chart6_columns" ->
                [num_col1 |-> nc[1], num_col2 |-> nc[2], text_col1 |-> tc[1],
                 text_col2 |-> tc[2]]
          [] key = "chart7_columns" ->
                [num_col1 |-> nc[1], num_col2 |-> nc[2], num_col3 |-> nc[3],
                 text_col |-> tc[1]]
          [] key = "chart8_columns" ->
                [num_col1 |-> nc[1], num_col2 |-> nc[2], num_col3 |-> nc[3],
                 text_col1 |-> tc[1], text_col2 |-> tc[2]]
          [] key = "chart9_columns" ->
                [numeric_col |-> nc[1],
                 text_cols |-> Take(non_numeric_cols(c), MaxChart9TextCols),
                 is_stacked |-> Len(non_numeric_cols(c)) >= 2]

\* the builder each branch calls
build(key, table, cols, ss) ==
    CASE key = "chart1_columns" -> create_chart1(table, cols, ss)
      [] key = "chart2_columns" -> create_chart2(table, cols, ss)
      [] key = "chart3_columns" -> create_chart3(table, cols, ss)
      [] key = "chart4_columns" -> create_chart4(table, cols, ss)
      [] key = "chart5_columns" -> create_chart5(table, cols, ss)
      [] key = "chart6_columns" -> create_chart6(table, cols, ss)
      [] key = "chart7_columns" -> create_chart7(table, cols, ss)
      [] key = "chart8_columns" -> create_chart8(table, cols, ss)
      [] key = "chart9_columns" -> create_chart9(table, cols, ss)

HostCalls(names) ==
    [i \in 1..Len(names) |-> [call |-> names[i], col |-> "", label |-> ""]]

Selected(md, writes, called, chart, calls, ss) ==
    [chart_metadata |-> md, attrs_writes |-> writes, builders |-> called,
     alt_chart |-> chart, calls |-> calls, session_state |-> ss]

\* lines 441-596: the if/elif chain, entered with the metadata, the history
\* and the host calls the telco branch left behind (`before`)
rule_chain(c, before) ==
    LET key == taken_branch(c.df_display.nrows, Len(c.date_cols),
                            Len(c.text_cols), Len(c.numeric_cols))
        cols == bindings(key, c)
        kpi  == create_chart10(c.df_display, cols, TRUE)
        b    == build(key, c.df_display, cols, before.session_state)
    IN  IF key = "none" \/ (key = "chart9_columns" /\ non_numeric_cols(c) = << >>)
        THEN [before EXCEPT !.alt_chart = None]
        ELSE IF key = "chart10_columns"
        THEN Selected(Metadata(key, cols), Append(before.attrs_writes, key),
                      Append(before.builders, key), KPI_RENDERED,
                      before.calls \o kpi.tiles, before.session_state)
        ELSE Selected(Metadata(key, cols), Append(before.attrs_writes, key),
                      Append(before.builders, key), b.chart,
                      before.calls \o HostCalls(b.calls), b.session_state)

\* lines 598-696: what is shown for the value of alt_chart
show(chart) ==
    IF chart.kind = "__KPI_RENDERED__" THEN HostCalls(<<"st.button">>)
    ELSE IF chart.kind = "chart" THEN HostCalls(<<"st.altair_chart", "st.button">>)
    ELSE HostCalls(<<"st.markdown:No appropriate chart found">>)

\* display_chart from the classification on (lines 425-696).  The telco
\* branch returns the chart of create_chart5 to the caller at line 439,
\* before the chain and before anything is shown.
select_and_show(c, ss) ==
    LET nothing == Selected(NoMetadata, << >>, << >>, None, << >>, ss)
        b5      == create_chart5(c.df_display, telco_binding, ss)
        telco   == Selected(Metadata("chart5_columns", telco_binding),
                            <<"chart5_columns">>, <<"chart5_columns">>, b5.chart,
                            HostCalls(b5.calls), b5.session_state)
        chained == rule_chain(c, IF telco_rule(c.df_display) THEN telco ELSE nothing)
    IN  IF telco_rule(c.df_display) /\ b5.chart.kind # "None"
        THEN [telco EXCEPT !.calls = @ \o HostCalls(<<"return alt_chart">>)]
        ELSE [chained EXCEPT !.calls = @ \o show(chained.alt_chart)]

----------------------------------------------------------------------------
(* The state machine *)

NoSelection == [k \in {} |-> ""]

\* no classification pass has run yet
NoLists == [date_cols |-> << >>, numeric_cols |-> << >>, text_cols |-> << >>]

\* generate_chart_code_for_dataframe has not been called
NoCode == [kind |-> "no code"]

Init ==
    /\ pc = "called"
    \* the non-empty query results display_message hands over (line 351):
    \* n rows and k columns with distinct names
    /\ \E n \in RowCounts, k \in 1..MaxCols :
          \E cs \in [1..k -> ColumnPool(n)] :
              /\ IsInjective(ColNames(cs))
              /\ df = [nrows |-> n, cols |-> cs]
    /\ df_display = df
    /\ date_cols = << >>
    /\ numeric_cols = << >>
    /\ text_cols = << >>
    /\ chart_metadata = NoMetadata
    /\ attrs_writes = << >>
    /\ builders = << >>
    /\ alt_chart = None
    /\ host = << >>
    /\ session_state = NoSelection
    /\ selection_before = NoSelection
    /\ first_pass = NoLists
    /\ chart_code = NoCode
    /\ value = 0
    /\ formatted_value = << >>

\* display_chart(df, message_index), lines 361-700
display_chart ==
    /\ pc = "called"
    /\ \E c \in {classify(df_display)} :
       \E r \in {select_and_show(c, session_state)} :
           /\ df_display' = c.df_display
           /\ date_cols' = c.date_cols
           /\ numeric_cols' = c.numeric_cols
           /\ text_cols' = c.text_cols
           /\ chart_metadata' = r.chart_metadata
           /\ attrs_writes' = r.attrs_writes
           /\ builders' = r.builders
           /\ alt_chart' = r.alt_chart
           /\ host' = r.calls
           /\ session_state' = r.session_state
    /\ pc' = "returned"
    /\ UNCHANGED <<df, selection_before, first_pass, chart_code, value,
                   formatted_value>>

Next == display_chart

Spec == Init /\ [][Next]_vars

----------------------------------------------------------------------------
(* Properties.  They are read in the state display_chart leaves.           *)

Returned == pc = "returned"

Rows == df_display.nrows
D == Len(date_cols)
T == Len(text_cols)
N == Len(numeric_cols)

Names(table) == Range(ColNames(table.cols))

TelcoTable == telco_columns \subseteq Names(df)

KpiTable == Rows = 1 /\ N >= 1 /\ N <= 4 /\ T <= 1

\* the count rules (archetypes 1-9) whose condition the table satisfies
SatisfiedCountRules ==
    {k \in 1..9 :
        CASE k = 1 -> rule1(D, T, N) [] k = 2 -> rule2(D, T, N)
          [] k = 3 -> rule3(D, T, N) [] k = 4 -> rule4(D, T, N)
          [] k = 5 -> rule5(D, T, N) [] k = 6 -> rule6(D, T, N)
          [] k = 7 -> rule7(D, T, N) [] k = 8 -> rule8(D, T, N)
          [] k = 9 -> rule9(D, T, N)}

\* all rule conditions the table satisfies: 0 is the special-case override,
\* 10 the single-row KPI rule
SatisfiedRules ==
    SatisfiedCountRules \cup (IF TelcoTable THEN {0} ELSE {})
                        \cup (IF kpi_rule(Rows, D, T, N) THEN {10} ELSE {})

ArchetypeKey(k) ==
    CASE k = 1 -> "chart1_columns" [] k = 2 -> "chart2_columns"
      [] k = 3 -> "chart3_columns" [] k = 4 -> "chart4_columns"
      [] k = 5 -> "chart5_columns" [] k = 6 -> "chart6_columns"
      [] k = 7 -> "chart7_columns" [] k = 8 -> "chart8_columns"
      [] k = 9 -> "chart9_columns" [] k = 10 -> "chart10_columns"

Attached(k) == chart_metadata.key = ArchetypeKey(k)

\* C1 as stated: every table with one temporal, no categorical and one
\* numeric column, whatever its row count, gets archetype 1 bound to that
\* temporal and that numeric column.
C1_Chart1AnyRowCount ==
    (Returned /\ D = 1 /\ T = 0 /\ N = 1) =>
        /\ Attached(1)
        /\ chart_metadata.cols =
              [date_col |-> date_cols[1], numeric_col |-> numeric_cols[1]]

\* C1 amended: a table of more than one row that does not hold the telco
\* triple, with one temporal, no categorical and one numeric column, gets
\* archetype 1 bound to that temporal and that numeric column, and
\* create_chart1 is the one builder called; the result is a function of the
\* classification, so the same table gives the same result.
C1_Chart1 ==
    (Returned /\ D = 1 /\ T = 0 /\ N = 1 /\ Rows # 1 /\ ~TelcoTable) =>
        /\ Attached(1)
        /\ chart_metadata.cols =
              [date_col |-> date_cols[1], numeric_col |-> numeric_cols[1]]
        /\ builders = <<"chart1_columns">>
        /\ alt_chart.kind = "chart"
        /\ alt_chart.x[1] = date_cols[1] /\ alt_chart.y[1] = numeric_cols[1]

C1_Witness ==
    /\ Returned /\ D = 1 /\ T = 0 /\ N = 1 /\ Rows = 10
    /\ Len(df.cols) = 2
    /\ Attached(1)
    /\ chart_metadata.cols.date_col = "order_date"
    /\ chart_metadata.cols.numeric_col = "sales"

\* C2 as stated: for every table at most one rule condition of the decision
\* list (override, KPI rule, nine count rules) is satisfied.
C2_AllRulesExclusive == Returned => Cardinality(SatisfiedRules) <= 1

\* C2 amended: the nine count rules are mutually exclusive, and when neither
\* the override nor the KPI rule applies the archetype attached is that of the
\* one count rule satisfied, so the order of the count rules among themselves
\* does not matter; the override and the KPI rule can hold together with a
\* count rule and win only because they are evaluated first.
C2_CountRulesExclusive ==
    Returned =>
        /\ Cardinality(SatisfiedCountRules) <= 1
        /\ (~TelcoTable /\ ~kpi_rule(Rows, D, T, N) /\ chart_metadata.key # "none")
              => \E k \in SatisfiedCountRules : Attached(k)
        /\ (TelcoTable \/ kpi_rule(Rows, D, T, N))
              => (Attached(5) \/ Attached(10))

C2_Witness ==
    /\ Returned /\ ~TelcoTable /\ ~kpi_rule(Rows, D, T, N)
    /\ SatisfiedCountRules = {7}
    /\ Attached(7)

\* C3: after classification the temporal, numeric and categorical column
\* lists are pairwise disjoint.
C3_ClassesDisjoint ==
    Returned =>
        /\ Range(date_cols) \cap Range(numeric_cols) = {}
        /\ Range(date_cols) \cap Range(text_cols) = {}
        /\ Range(numeric_cols) \cap Range(text_cols) = {}

\* the columns a role of the bindings names, with the class the role asks for
RoleColumns(cols, roles) ==
    {cols[r] : r \in roles \cap DOMAIN cols}

DateRoles == {"date_col"}
NumericRoles == {"numeric_col", "num_col1", "num_col2", "num_col3"}
TextRoles == {"text_col", "text_col1", "text_col2"}

ListRole(cols, role) == IF role \in DOMAIN cols THEN Range(cols[role]) ELSE {}

\* C4: every chart specification attached to a table binds each role to a
\* column of the table that has the role's class after classification.
C4_BindingsWellTyped ==
    (Returned /\ chart_metadata.key # "none") =>
        LET cols == chart_metadata.cols
        IN  /\ RoleColumns(cols, DateRoles) \subseteq Range(date_cols)
            /\ RoleColumns(cols, NumericRoles) \cup ListRole(cols, "numeric_cols")
                  \subseteq Range(numeric_cols)
            /\ RoleColumns(cols, TextRoles) \cup ListRole(cols, "text_cols")
                  \subseteq Range(text_cols)
            /\ RoleColumns(cols, DateRoles \cup NumericRoles \cup TextRoles)
                  \subseteq Names(df_display)

\* C5: a table whose column names are exactly the telco triple gets archetype
\* 5 bound to num_col1 = total_tickets, num_col2 = avg_sentiment, text_col =
\* cell_id_display, whatever its row count and column types; chart_metadata is
\* written once and no builder other than create_chart5 runs.
C5_TelcoOverride ==
    (Returned /\ Names(df) = telco_columns) =>
        /\ Attached(5)
        /\ chart_metadata.cols =
              [num_col1 |-> "total_tickets", num_col2 |-> "avg_sentiment",
               text_col |-> "cell_id_display"]
        /\ attrs_writes = <<"chart5_columns">>
        /\ builders = <<"chart5_columns">>

\* a single-row telco table whose counts satisfy the KPI rule
C5_Witness ==
    /\ Returned /\ Names(df) = telco_columns
    /\ kpi_rule(Rows, D, T, N)
    /\ Attached(5)

C7_KpiAnyTable ==
    (Returned /\ Rows = 1 /\ N >= 1 /\ N <= 4 /\ T <= 1) =>
        /\ Attached(10)
        /\ chart_metadata.cols.numeric_cols = numeric_cols

\* C7 amended: every single-row table that does not hold the telco triple,
\* with 1 to 4 numeric columns and at most one categorical column, gets
\* archetype 10 bound to all numeric columns; create_chart10 is the one
\* builder called, also when the counts satisfy rule 9 (0 temporal, 1
\* numeric).
C7_KpiFirst ==
    (Returned /\ Rows = 1 /\ N >= 1 /\ N <= 4 /\ T <= 1 /\ ~TelcoTable) =>
        /\ Attached(10)
        /\ ~Attached(9)
        /\ chart_metadata.cols.numeric_cols = numeric_cols
        /\ attrs_writes = <<"chart10_columns">>
        /\ builders = <<"chart10_columns">>
        /\ alt_chart = KPI_RENDERED

\* a single-row table with a text column and one numeric column: the counts
\* satisfy rule 9 as well
C7_Witness ==
    /\ Returned /\ Rows = 1 /\ D = 0 /\ N = 1 /\ T = 1 /\ ~TelcoTable
    /\ Attached(10)
    /\ chart_metadata.cols.numeric_cols = numeric_cols

\* the tables no rule of the decision list accepts, by their counts
NoRuleSignature ==
    /\ ~TelcoTable
    /\ ~KpiTable
    /\ \/ D >= 2
       \/ N = 0
       \/ D = 1 /\ N = 2 /\ T >= 1
       \/ D = 1 /\ N >= 3
       \/ D = 0 /\ N = 1 /\ Names(df_display) \subseteq Range(numeric_cols)
       \/ D = 0 /\ N = 2 /\ T \notin {1, 2}
       \/ D = 0 /\ N = 3 /\ T = 0
       \/ D = 0 /\ N >= 4 /\ T <= 1

NoChartShown ==
    /\ chart_metadata.key = "none"
    /\ attrs_writes = << >>
    /\ builders = << >>
    /\ alt_chart = None
    /\ host = HostCalls(<<"st.markdown:No appropriate chart found">>)

\* C8: a table whose signature matches none of the rules (in particular 3
\* temporal and 0 numeric columns) gets no chart metadata, no builder is
\* called and the only host call is the 'No appropriate chart found'
\* message (no st.error); every other table gets chart metadata.
C8_NoMatchFallback ==
    Returned =>
        /\ NoRuleSignature => NoChartShown
        /\ ~NoRuleSignature => chart_metadata.key # "none"

C8_Witness ==
    /\ Returned /\ D = 3 /\ N = 0
    /\ NoChartShown

----------------------------------------------------------------------------
(* Date recovery, read on the table as it was handed over (df) *)

NoGenuineDate == \A i \in 1..Len(df.cols) : df.cols[i].dtype # "datetime64"

\* the positions of the candidate columns of date recovery
Candidates ==
    {i \in 1..Len(df.cols) :
        has_date_related_name(df.cols[i].name) \/ df.cols[i].dtype = "object"}

\* at least one non-null value and parsed / non_null >= 0.9
NinetyPercent(col) == col.nonnull > 0 /\ 10 * col.parsed >= 9 * col.nonnull

\* candidate i is examined before candidate j: the columns with a
\* date-related name come first, each group in column order
ScannedBefore(i, j) ==
    LET named(k) == has_date_related_name(df.cols[k].name)
    IN  \/ named(i) /\ ~named(j)
        \/ named(i) = named(j) /\ i < j

Promoted(i) == df.cols[i].name \in Range(date_cols)

\* the positions whose stored column differs from the one handed over
ChangedColumns == {i \in 1..Len(df.cols) : df_display.cols[i] # df.cols[i]}

\* C9 as stated: in date recovery a candidate is promoted if and only if it
\* has a non-null value and at least 90% of its non-null values parse.
C9_PromotedIffThreshold ==
    (Returned /\ NoGenuineDate) =>
        \A i \in Candidates : Promoted(i) <=> NinetyPercent(df.cols[i])

\* C9 amended: in date recovery a candidate that is examined (no candidate
\* before it was promoted) is promoted if and only if it has a non-null
\* value and 10 * parsed >= 9 * non_null; 9 of 10 is promoted, 8 of 9 is not.
C9_ExaminedPromotedIffThreshold ==
    (Returned /\ NoGenuineDate) =>
        \A i \in Candidates :
            Promoted(i) <=>
                /\ NinetyPercent(df.cols[i])
                /\ \A j \in Candidates :
                       ScannedBefore(j, i) => ~NinetyPercent(df.cols[j])

\* 9 of 10 values parse and the column is promoted, next to a column of
\* which 0 of 10 parse
C9_Witness ==
    /\ Returned /\ NoGenuineDate
    /\ \E i \in Candidates :
          /\ df.cols[i].nonnull = 10 /\ df.cols[i].parsed = 9
          /\ date_cols = <<df.cols[i].name>>
          /\ df_display.cols[i].dtype = "datetime64"
    /\ \E j \in Candidates : df.cols[j].parsed = 0 /\ ~Promoted(j)

\* C10: date recovery runs only when no column is a genuine timestamp
\* column; it promotes the first candidate, in the order named columns then
\* other string/object columns, that reaches the threshold, and stops: at
\* most one column is promoted and only its stored values change.
C10_RecoveryPromotesFirstOnly ==
    Returned =>
        /\ df_display.nrows = df.nrows
        /\ ColNames(df_display.cols) = ColNames(df.cols)
        /\ ~NoGenuineDate =>
              /\ df_display = df
              /\ \A i \in 1..Len(df.cols) :
                     Promoted(i) <=> df.cols[i].dtype = "datetime64"
        /\ NoGenuineDate =>
              /\ Len(date_cols) <= 1
              /\ ChangedColumns = {i \in 1..Len(df.cols) : Promoted(i)}
              /\ \A i \in 1..Len(df.cols) : Promoted(i) =>
                     /\ i \in Candidates
                     /\ \A j \in Candidates \ {i} :
                            NinetyPercent(df.cols[j]) => ScannedBefore(i, j)

\* two candidates reach the threshold; the one with the date-related name
\* stands later in the table and is the one promoted
C10_Witness ==
    /\ Returned /\ NoGenuineDate
    /\ \E i, j \in Candidates :
          /\ j < i
          /\ NinetyPercent(df.cols[i]) /\ NinetyPercent(df.cols[j])
          /\ date_cols = <<df.cols[i].name>>
          /\ ChangedColumns = {i}
          /\ df_display.cols[j] = df.cols[j]

----------------------------------------------------------------------------
(* Coverage of the classification *)

\* the columns of the table that are in none of the three lists
Unclassified ==
    Names(df_display) \ (Range(date_cols) \cup Range(numeric_cols)
                            \cup Range(text_cols))

\* C11: after classification every column that is neither temporal nor
\* numeric is in the categorical list, so the three lists together cover all
\* columns of the table.
C11_ClassesCover == Returned => Unclassified = {}

----------------------------------------------------------------------------
(* Classifying twice: the classification of lines 375-415 applied to a      *)
(* table, and applied again to the table as the first pass left it.         *)

\* largest number of columns of a table that is classified twice
MaxClassifyCols == 3

InitTwice ==
    /\ pc = "called"
    /\ \E n \in RowCounts, k \in 1..MaxClassifyCols :
          \E cs \in [1..k -> ColumnPool(n)] :
              /\ IsInjective(ColNames(cs))
              /\ df = [nrows |-> n, cols |-> cs]
    /\ df_display = df
    /\ date_cols = << >>
    /\ numeric_cols = << >>
    /\ text_cols = << >>
    /\ chart_metadata = NoMetadata
    /\ attrs_writes = << >>
    /\ builders = << >>
    /\ alt_chart = None
    /\ host = << >>
    /\ session_state = NoSelection
    /\ selection_before = NoSelection
    /\ first_pass = NoLists
    /\ chart_code = NoCode
    /\ value = 0
    /\ formatted_value = << >>

\* lines 375-415 on the table display_chart was handed; the lists of the
\* pass before are kept in first_pass
classify_pass(from, to) ==
    /\ pc = from
    /\ \E c \in {classify(df_display)} :
           /\ df_display' = c.df_display
           /\ date_cols' = c.date_cols
           /\ numeric_cols' = c.numeric_cols
           /\ text_cols' = c.text_cols
    /\ first_pass' = [date_cols |-> date_cols, numeric_cols |-> numeric_cols,
                      text_cols |-> text_cols]
    /\ pc' = to
    /\ UNCHANGED <<df, chart_metadata, attrs_writes, builders, alt_chart, host,
                   session_state, selection_before, chart_code, value,
                   formatted_value>>

classify_first == classify_pass("called", "classified")

classify_again == classify_pass("classified", "classified twice")

NextTwice == classify_first \/ classify_again

SpecTwice == InitTwice /\ [][NextTwice]_vars

ClassifiedTwice == pc = "classified twice"

\* C12: classifying the same table twice in succession yields identical
\* temporal, numeric and categorical lists: the lists of the second pass, run
\* on the table as the first pass left it, equal the lists of the first pass.
C12_ClassifyTwiceSame ==
    ClassifiedTwice =>
        first_pass = [date_cols |-> date_cols, numeric_cols |-> numeric_cols,
                      text_cols |-> text_cols]

----------------------------------------------------------------------------
(* create_chart_from_metadata: chart_utils.py lines 14-61 *)

known_keys ==
    {"chart1_columns", "chart2_columns", "chart3_columns", "chart4_columns",
     "chart5_columns", "chart6_columns", "chart7_columns", "chart8_columns",
     "chart9_columns", "chart10_columns"}

WarningCalls(warned) == IF warned = "" THEN << >> ELSE <<warned>>

\* The dispatch on the archetype key.  create_chart10 is called from this
\* module, so its frame inspection finds neither the page nor display_chart
\* and it does not render.
create_chart_from_metadata(table, md, ss) ==
    LET k10 == create_chart10(table, md.cols, FALSE)
        b   == build(md.key, table, md.cols, ss)
    IN  IF md.key = "none" THEN Built(None, << >>, ss)
        ELSE IF md.key = "chart10_columns"
        THEN Built(except_Exception(k10.result), WarningCalls(k10.warned), ss)
        ELSE IF md.key \in known_keys
        THEN [b EXCEPT !.chart = except_Exception(@)]
        ELSE Built(None, << >>, ss)

----------------------------------------------------------------------------
(* generate_chart_code_for_dataframe: chart_utils.py lines 665-990.  The     *)
(* text it returns is kept by its parts: the function header, the st.error  *)
(* message of an error body, the selector statements, the chart expression  *)
(* of the return statement and the column list of the KPI loop.             *)

Code(error, selectors, chart, kpi) ==
    [kind |-> "code", def |-> "create_chart(df)", error |-> error,
     selectors |-> selectors, chart |-> chart, kpi |-> kpi]

\* a comment line, st.error(message), return None
ErrorBody(message) == Code(message, << >>, None, << >>)

\* `cols.get(role) is not None`: an empty string passes
name_present(cols, role) == role \in DOMAIN cols

\* `not cols.get(role)` is false: the role is bound to a non-empty string
name_given(cols, role) == role \in DOMAIN cols /\ cols[role] # ""

\* `not cols.get(role, [])` is false: the role is bound to a non-empty list
list_given(cols, role) == role \in DOMAIN cols /\ cols[role] # << >>

names_given(cols, roles) == \A r \in roles : name_given(cols, r)

\* the selector statements emitted for one selectbox: key prefix and the
\* option list written into the text as a literal
Selector(prefix, options) == [prefix |-> prefix, options |-> options]

\* a field written as an f-string over a variable of the emitted function
selected_text_col == "$selected_text_col"
selected_color_col == "$selected_color_col"

\* line 830: the text '{selected_text_col}:N' in a plain string literal
literal_selected_text_col == "{selected_text_col}"

generate_chart_code_for_dataframe(md) ==
    LET cols == md.cols
    IN  IF md.key = "none"
        THEN ErrorBody("No chart metadata available. Please provide chart configuration.")
        ELSE IF md.key = "chart10_columns"
        THEN IF ~list_given(cols, "numeric_cols")
             THEN ErrorBody("Missing required columns for KPI Tiles")
             ELSE Code("", << >>, None, cols.numeric_cols)
        ELSE IF md.key = "chart1_columns"
        THEN IF ~names_given(cols, {"date_col", "numeric_col"})
             THEN ErrorBody("Missing required columns for Bar Chart by Date")
             ELSE Code("", << >>,
                       AltChart("bar", <<cols.date_col, "T", "ascending">>,
                                <<cols.numeric_col, "Q", "">>, << >>, << >>, << >>,
                                << >>, <<cols.date_col, cols.numeric_col>>),
                       << >>)
        ELSE IF md.key = "chart2_columns"
        THEN IF ~names_given(cols, {"date_col", "num_col1", "num_col2"})
             THEN ErrorBody("Missing required columns for Dual Axis Line Chart")
             ELSE Code("", << >>,
                       AltChart("line(blue)+line(red),y=independent",
                                <<cols.date_col, "T", "ascending">>,
                                <<cols.num_col1, "Q", "">>, <<cols.num_col2, "Q", "">>,
                                << >>, << >>, << >>,
                                <<cols.date_col, cols.num_col1, cols.date_col,
                                  cols.num_col2>>),
                       << >>)
        ELSE IF md.key = "chart3_columns"
        THEN IF ~names_given(cols, {"date_col", "text_col", "numeric_col"})
             THEN ErrorBody("Missing required columns for Stacked Bar Chart by Date")
             ELSE Code("", << >>,
                       AltChart("bar", <<cols.date_col, "T", "ascending">>,
                                <<cols.numeric_col, "Q", "zero">>, << >>,
                                <<cols.text_col, "N">>, << >>, << >>,
                                <<cols.date_col, cols.text_col, cols.numeric_col>>),
                       << >>)
        ELSE IF md.key = "chart4_columns"
        THEN IF \/ ~names_given(cols, {"date_col", "numeric_col"})
                \/ ~list_given(cols, "text_cols")
                \/ Len(cols.text_cols) < 2
             THEN ErrorBody("Missing required columns for Stacked Bar Chart with Text Column Selector for Colors")
             ELSE Code("", <<Selector("chart4_select", cols.text_cols)>>,
                       AltChart("bar", <<cols.date_col, "T", "ascending">>,
                                <<cols.numeric_col, "Q", "zero">>, << >>,
                                <<literal_selected_text_col, "N">>, << >>, << >>,
                                <<cols.date_col, literal_selected_text_col,
                                  cols.numeric_col>>),
                       << >>)
        ELSE IF md.key = "chart5_columns"
        THEN IF ~names_given(cols, {"num_col1", "num_col2", "text_col"})
             THEN ErrorBody("Missing required columns for Scatter Chart")
             ELSE Code("", << >>,
                       AltChart("circle(size=60)", <<cols.num_col1, "Q", "">>,
                                <<cols.num_col2, "Q", "">>, << >>,
                                <<cols.text_col, "N">>, << >>, << >>,
                                <<cols.num_col1, cols.num_col2, cols.text_col>>),
                       << >>)
        ELSE IF md.key = "chart6_columns"
        THEN IF ~names_given(cols, {"num_col1", "num_col2", "text_col1", "text_col2"})
             THEN ErrorBody("Missing required columns for Scatter Chart with Multiple Dimensions")
             ELSE Code("", << >>,
                       AltChart("point(size=100)", <<cols.num_col1, "Q", "">>,
                                <<cols.num_col2, "Q", "">>, << >>,
                                <<cols.text_col1, "N">>, << >>,
                                <<cols.text_col2, "N", symbols>>,
                                <<cols.text_col1, cols.text_col2, cols.num_col1,
                                  cols.num_col2>>),
                       << >>)
        ELSE IF md.key = "chart7_columns"
        THEN IF ~names_given(cols, {"num_col1", "num_col2", "num_col3", "text_col"})
             THEN ErrorBody("Missing required columns for Bubble Chart")
             ELSE Code("", << >>,
                       AltChart("circle", <<cols.num_col1, "Q", "">>,
                                <<cols.num_col2, "Q", "">>, << >>,
                                <<cols.text_col, "N">>, <<cols.num_col3, "Q">>, << >>,
                                <<cols.num_col1, cols.num_col2, cols.num_col3,
                                  cols.text_col>>),
                       << >>)
        ELSE IF md.key = "chart8_columns"
        THEN IF ~names_given(cols, {"num_col1", "num_col2", "num_col3",
                                    "text_col1", "text_col2"})
             THEN ErrorBody("Missing required columns for Multi-Dimensional Bubble Chart")
             ELSE Code("", << >>,
                       AltChart("point", <<cols.num_col1, "Q", "">>,
                                <<cols.num_col2, "Q", "">>, << >>,
                                <<cols.text_col1, "N">>, <<cols.num_col3, "Q">>,
                                <<cols.text_col2, "N", symbols>>,
                                <<cols.text_col1, cols.text_col2, cols.num_col1,
                                  cols.num_col2, cols.num_col3>>),
                       << >>)
        ELSE IF md.key = "chart9_columns"
        THEN IF ~name_given(cols, "numeric_col") \/ ~list_given(cols, "text_cols")
             THEN ErrorBody("Missing required columns for Bar Chart with Text Column Selector")
             ELSE Code("", <<Selector("chart9_select", cols.text_cols),
                             Selector("chart9_color_select", cols.text_cols)>>,
                       AltChart("bar", <<selected_text_col, "N", "-y">>,
                                <<cols.numeric_col, "Q", "zero">>, << >>,
                                <<selected_color_col, "N">>, << >>, << >>,
                                <<selected_text_col, selected_color_col,
                                  cols.numeric_col>>),
                       << >>)
        ELSE ErrorBody("No valid chart type found in metadata. Please provide chart configuration.")

\* What running the emitted function gives: the chart it returns (or what
\* it raises: the emitted text has no handler), the tiles it draws and the
\* selector state it leaves.
Executed(chart, tiles, ss) == [chart |-> chart, tiles |-> tiles, session_state |-> ss]

\* the selector statements of the emitted function, in order
RECURSIVE run_selectors(_, _, _)
run_selectors(ss, table, selectors) ==
    IF selectors = << >> THEN ss
    ELSE run_selectors(selector_init(ss, widget_key(Head(selectors).prefix, table),
                                     Head(selectors).options),
                       table, Tail(selectors))

\* the value of a field of the chart expression when the function runs
value_of(field, table, selectors, ss) ==
    IF field = selected_text_col THEN ss[widget_key(selectors[1].prefix, table)]
    ELSE IF field = selected_color_col THEN ss[widget_key(selectors[2].prefix, table)]
    ELSE field

\* the chart expression with every field replaced by its value
evaluate(chart, table, selectors, ss) ==
    LET f(fld)   == value_of(fld, table, selectors, ss)
        first(t) == IF t = << >> THEN t ELSE [t EXCEPT ![1] = f(t[1])]
    IN  [chart EXCEPT !.x = first(@), !.y = first(@), !.y2 = first(@),
                      !.color = first(@), !.size = first(@), !.shape = first(@),
                      !.tooltip = [i \in 1..Len(@) |-> f(@[i])]]

\* create_chart(df) of the emitted text, run on a table
exec_create_chart(code, table, ss) ==
    LET ss1    == run_selectors(ss, table, code.selectors)
        n_cols == Min(Len(code.kpi), MaxTiles)
        r      == render_kpi_tiles(table, code.kpi, NoLabels, n_cols)
    IN  IF code.error # "" THEN Executed(None, << >>, ss)
        ELSE IF code.kpi # << >>
        THEN IF table.nrows # 1 THEN Executed(None, << >>, ss)
             ELSE IF r.raised
             THEN Executed(tile_error(table, Take(code.kpi, n_cols)), r.tiles, ss)
             ELSE Executed(None, r.tiles, ss)
        ELSE Executed(evaluate(code.chart, table, code.selectors, ss1), << >>, ss1)

----------------------------------------------------------------------------
(* A chat session: query results are displayed one after the other under    *)
(* one st.session_state, the user changes a selection, clears the chat      *)
(* history or opens a chart in the designer.                                *)

Table(n, cs) == [nrows |-> n, cols |-> cs]

\* The query results of the session.  Stacked bars by date (rule 4) with
\* three text columns, the same names and shape with `shipped` no longer a
\* text column, and the same columns in a single row; bars over a text
\* column (rule 9) with two text columns; two results of equal names and
\* shape whose numeric column differs; a result without a selector (rule 1).
SessionResults ==
    { Table(10, <<Col("order_date", "datetime64", 10, 10, FALSE),
                  Col("cell_id_display", "object", 10, 0, FALSE),
                  Col("total_tickets", "object", 10, 0, FALSE),
                  Col("shipped", "object", 10, 0, FALSE),
                  Col("sales", "float64", 10, 10, FALSE)>>),
      Table(10, <<Col("order_date", "datetime64", 10, 10, FALSE),
                  Col("cell_id_display", "object", 10, 0, FALSE),
                  Col("total_tickets", "object", 10, 0, FALSE),
                  Col("shipped", "category", 10, 0, FALSE),
                  Col("sales", "float64", 10, 10, FALSE)>>),
      Table(1,  <<Col("order_date", "datetime64", 1, 1, FALSE),
                  Col("cell_id_display", "object", 1, 0, FALSE),
                  Col("total_tickets", "object", 1, 0, FALSE),
                  Col("shipped", "object", 1, 0, FALSE),
                  Col("sales", "float64", 1, 1, FALSE)>>),
      Table(10, <<Col("cell_id_display", "object", 10, 0, FALSE),
                  Col("shipped", "object", 10, 0, FALSE),
                  Col("sales", "float64", 10, 10, FALSE)>>),
      Table(10, <<Col("total_tickets", "int64", 10, 10, FALSE),
                  Col("sales", "object", 10, 0, FALSE)>>),
      Table(10, <<Col("total_tickets", "object", 10, 0, FALSE),
                  Col("sales", "float64", 10, 10, FALSE)>>),
      Table(10, <<Col("order_date", "datetime64", 10, 10, FALSE),
                  Col("sales", "float64", 10, 10, FALSE)>>) }

\* the selectboxes on the page after display_chart: key and options
selectboxes(md, table) ==
    IF md.key = "chart4_columns"
    THEN {[key |-> widget_key("chart4_select", table), options |-> md.cols.text_cols]}
    ELSE IF md.key = "chart9_columns"
    THEN {[key |-> widget_key("chart9_select", table), options |-> md.cols.text_cols],
          [key |-> widget_key("chart9_color_select", table),
           options |-> md.cols.text_cols]}
    ELSE {}

InitSession ==
    /\ pc = "idle"
    /\ df = Table(0, << >>)
    /\ df_display = df
    /\ date_cols = << >>
    /\ numeric_cols = << >>
    /\ text_cols = << >>
    /\ chart_metadata = NoMetadata
    /\ attrs_writes = << >>
    /\ builders = << >>
    /\ alt_chart = None
    /\ host = << >>
    /\ session_state = NoSelection
    /\ selection_before = NoSelection
    /\ first_pass = NoLists
    /\ chart_code = NoCode
    /\ value = 0
    /\ formatted_value = << >>

\* display_chart(t, message_index) under the selector state ss
render(t, ss) ==
    \E c \in {classify(t)} :
    \E r \in {select_and_show(c, ss)} :
        /\ df' = t
        /\ df_display' = c.df_display
        /\ date_cols' = c.date_cols
        /\ numeric_cols' = c.numeric_cols
        /\ text_cols' = c.text_cols
        /\ chart_metadata' = r.chart_metadata
        /\ attrs_writes' = r.attrs_writes
        /\ builders' = r.builders
        /\ alt_chart' = r.alt_chart
        /\ host' = r.calls
        /\ session_state' = r.session_state
        /\ selection_before' = ss
        /\ chart_code' = NoCode

\* process_user_input, display_message: a new query result is displayed
run_query ==
    /\ pc \in {"idle", "returned", "rerun", "cleared", "designer"}
    /\ \E t \in SessionResults : render(t, session_state)
    /\ pc' = "returned"
    /\ UNCHANGED <<first_pass, value, formatted_value>>

\* the script runs again and display_conversation displays the same result:
\* after the user changed a selection (pc = "selected"), or for any other
\* reason
rerun ==
    /\ pc \in {"returned", "rerun", "selected", "designer"}
    /\ render(df, session_state)
    /\ pc' = IF pc = "selected" THEN "returned" ELSE "rerun"
    /\ UNCHANGED <<first_pass, value, formatted_value>>

\* the user picks another option of a selectbox: the host stores it under
\* the widget key and schedules a rerun
select_option ==
    /\ pc \in {"returned", "rerun"}
    /\ alt_chart.kind = "chart"
    /\ \E w \in selectboxes(chart_metadata, df_display) :
       \E o \in Range(w.options) :
           /\ o # session_state[w.key]
           /\ session_state' = ss_set(session_state, w.key, o)
    /\ selection_before' = session_state
    /\ pc' = "selected"
    /\ UNCHANGED <<df, df_display, date_cols, numeric_cols, text_cols,
                   chart_metadata, attrs_writes, builders, alt_chart, host,
                   first_pass, chart_code, value,
                   formatted_value>>

\* reset_session_state with every selector entry deleted as well
reset_session_state_and_selectors ==
    /\ pc \in {"returned", "rerun"}
    /\ pc' = "cleared"
    /\ selection_before' = session_state
    /\ session_state' = NoSelection
    /\ UNCHANGED <<df, df_display, date_cols, numeric_cols, text_cols,
                   chart_metadata, attrs_writes, builders, alt_chart, host,
                   first_pass, chart_code, value,
                   formatted_value>>

\* reset_session_state (Clear Chat History, change of the semantic model):
\* messages, active_suggestion, warnings, form_submitted and
\* sql_execution_mode are assigned; no selector key is
reset_session_state ==
    /\ pc \in {"returned", "rerun"}
    /\ pc' = "cleared"
    /\ selection_before' = session_state
    /\ UNCHANGED <<df, df_display, date_cols, numeric_cols, text_cols,
                   chart_metadata, attrs_writes, builders, alt_chart, host,
                   session_state, first_pass, chart_code, value,
                   formatted_value>>

\* the Open in Designer button: the chart code is generated and stored in
\* st.session_state.report_transfer, then the page is switched
open_in_designer ==
    /\ pc \in {"returned", "rerun"}
    /\ alt_chart.kind \in {"chart", "__KPI_RENDERED__"}
    /\ chart_code' = generate_chart_code_for_dataframe(chart_metadata)
    /\ pc' = "designer"
    /\ selection_before' = session_state
    /\ UNCHANGED <<df, df_display, date_cols, numeric_cols, text_cols,
                   chart_metadata, attrs_writes, builders, alt_chart, host,
                   session_state, first_pass, value,
                   formatted_value>>

NextSession ==
    \/ run_query
    \/ rerun
    \/ select_option
    \/ reset_session_state
    \/ open_in_designer

SpecSession == InitSession /\ [][NextSession]_vars

----------------------------------------------------------------------------
(* Selector state.  selection_before is st.session_state as the last        *)
(* operation found it, session_state is what the operation left.            *)

\* the last operation was display_chart
Rendered == pc \in {"returned", "rerun"}

SelectorPrefixes == {"chart4_select", "chart9_select", "chart9_color_select"}

\* equal shape (rows, columns) and equal column name sequence
SameFingerprint(t1, t2) ==
    /\ t1.nrows = t2.nrows
    /\ Len(t1.cols) = Len(t2.cols)
    /\ ColNames(t1.cols) = ColNames(t2.cols)

RenderedKeys == {w.key : w \in selectboxes(chart_metadata, df_display)}

\* C13: after the selector initialisation of create_chart4 / create_chart9
\* with key k and non-empty options opts, the stored selection for k is a
\* member of opts: it is opts[0] when k was unseen or its stored value was not
\* in opts, and it is unchanged when the stored value was already in opts.
C13_SelectorInitialised ==
    Rendered =>
        \A w \in selectboxes(chart_metadata, df_display) :
            LET k    == w.key
                opts == w.options
                seen == k \in DOMAIN selection_before
            IN  /\ opts # << >>
                /\ k \in DOMAIN session_state
                /\ session_state[k] \in Range(opts)
                /\ (~seen \/ selection_before[k] \notin Range(opts))
                      => session_state[k] = opts[1]
                /\ (seen /\ selection_before[k] \in Range(opts))
                      => session_state[k] = selection_before[k]

\* the table changed under a reused key: the selection "shipped" made for
\* the first result is not an option of the second and is reset to the first
\* option
C13_Witness ==
    /\ Rendered
    /\ chart_metadata.key = "chart4_columns"
    /\ LET k == widget_key("chart4_select", df_display)
       IN  /\ k \in DOMAIN selection_before
           /\ selection_before[k] = "shipped"
           /\ "shipped" \notin Range(chart_metadata.cols.text_cols)
           /\ session_state[k] = chart_metadata.cols.text_cols[1]

\* C14: the selector key is a function of the archetype's widget, the table
\* shape and the column name sequence only: a result of equal shape and names
\* gets the same key under the same widget, any other result or widget gets
\* a different key, and a render changes no selection stored under a key of
\* another result or widget.
C14_KeyOfShapeAndNames ==
    Rendered =>
        /\ \A t \in SessionResults, p, q \in SelectorPrefixes :
              (widget_key(p, t) = widget_key(q, df_display))
                  <=> (p = q /\ SameFingerprint(t, df_display))
        /\ \A t \in SessionResults, p \in SelectorPrefixes :
              (~SameFingerprint(t, df_display)
                   /\ widget_key(p, t) \in DOMAIN selection_before)
                  => /\ widget_key(p, t) \in DOMAIN session_state
                     /\ session_state[widget_key(p, t)]
                            = selection_before[widget_key(p, t)]
        /\ \A k \in DOMAIN selection_before \ RenderedKeys :
              k \in DOMAIN session_state /\ session_state[k] = selection_before[k]

\* two results with the same column names and different row counts hold
\* different selections side by side
C14_Witness ==
    /\ Rendered
    /\ chart_metadata.key = "chart4_columns"
    /\ \E t \in SessionResults :
          LET k1 == widget_key("chart4_select", t)
              k2 == widget_key("chart4_select", df_display)
          IN  /\ ColNames(t.cols) = ColNames(df_display.cols)
              /\ t.nrows # df_display.nrows
              /\ k1 \in DOMAIN session_state
              /\ session_state[k1] = "shipped"
              /\ session_state[k2] = "total_tickets"
              /\ selection_before[k1] = "shipped"

\* C15: a selector entry, once it exists, is never removed: not by a render,
\* by rule selection, by code emission or by reset_session_state; and
\* displaying the same result again without a change of selection leaves
\* every stored selection as it was.
C15_SelectorsPersist ==
    /\ \A k \in DOMAIN selection_before : k \in DOMAIN session_state
    /\ pc \in {"rerun", "cleared", "designer"} => session_state = selection_before

\* the chat history was cleared and the selection the user made is still
\* stored
C15_Witness ==
    /\ pc = "cleared"
    /\ \E k \in DOMAIN session_state :
          k.widget = "chart4_select" /\ session_state[k] = "shipped"

----------------------------------------------------------------------------
(* The builders and the code generator as a library: display_chart attaches *)
(* the chart metadata to a query result, a caller may change the metadata,  *)
(* then calls a builder, create_chart_from_metadata or                      *)
(* generate_chart_code_for_dataframe on the result.                         *)

\* the most changes a caller makes to the metadata before it calls
MaxEdits == 1

\* a name that is a column of no table
no_such_column == "no_such_column"

\* Query results for every rule of display_chart: one per archetype, the
\* telco triple, a numeric column that date recovery promotes, a result no
\* rule accepts and one of five numeric columns.
ExampleColumns(n) ==
    LET order_date == Col("order_date", "datetime64", n, n, FALSE)
        cell       == Col("cell_id_display", "object", n, 0, FALSE)
        shipped    == Col("shipped", "object", n, 0, FALSE)
        tickets    == Col("total_tickets", "int64", n, n, FALSE)
        sales      == Col("sales", "float64", n, n, FALSE)
        holiday    == Col("Holiday", "bool", n, 0, TRUE)
        sentiment  == Col("avg_sentiment", "float64", n, n, FALSE)
    IN  { <<order_date, sales>>,
          <<order_date, sales, tickets>>,
          <<order_date, cell, sales>>,
          <<order_date, cell, shipped, sales>>,
          <<cell, tickets, sales>>,
          <<cell, shipped, tickets, sales>>,
          <<cell, tickets, sales, holiday>>,
          <<cell, shipped, tickets, sales, holiday>>,
          <<cell, shipped, sales>>,
          <<sentiment>>,
          <<cell, tickets, sentiment>>,
          <<order_date, Col("Holiday", "datetime64", n, n, FALSE),
            Col("shipped", "datetime64", n, n, FALSE)>>,
          <<Col("cell_id_display", "int64", n, n, FALSE), tickets,
            Col("shipped", "int64", n, n, FALSE), sales,
            Col("Holiday", "int64", n, n, FALSE)>> }

InitBuilders ==
    /\ pc = "called"
    /\ \E n \in RowCounts : \E cs \in ExampleColumns(n) : df = Table(n, cs)
    /\ df_display = df
    /\ date_cols = << >>
    /\ numeric_cols = << >>
    /\ text_cols = << >>
    /\ chart_metadata = NoMetadata
    /\ attrs_writes = << >>
    /\ builders = << >>
    /\ alt_chart = None
    /\ host = << >>
    /\ session_state = NoSelection
    /\ selection_before = NoSelection
    /\ first_pass = NoLists
    /\ chart_code = NoCode
    /\ value = 0
    /\ formatted_value = << >>

ListRoles == {"text_cols", "numeric_cols"}

FlagRoles == {"is_stacked"}

DictRoles == {"labels"}

\* del cols[role]
without(cols, role) == [r \in DOMAIN cols \ {role} |-> cols[r]]

\* the metadata one change away from md: the metadata removed, an archetype
\* key nothing knows, a role removed, a role bound to the empty string or to
\* a name that is no column, a list role emptied, cut to its first name or
\* bound to a name that is no column
edits(md) ==
    IF md.key = "none" THEN {Metadata("pie_columns", << >>)}
    ELSE {NoMetadata, Metadata("pie_columns", md.cols)}
         \cup {Metadata(md.key, without(md.cols, r)) : r \in DOMAIN md.cols}
         \cup {Metadata(md.key, [md.cols EXCEPT ![r] = v]) :
                  r \in DOMAIN md.cols \ (ListRoles \cup FlagRoles \cup DictRoles),
                  v \in {"", no_such_column}}
         \cup UNION {{Metadata(md.key, [md.cols EXCEPT ![r] = l]) :
                         l \in {<< >>, <<no_such_column>>, Take(md.cols[r], 1)}} :
                     r \in DOMAIN md.cols \cap ListRoles}

\* the caller asks for KPI tiles of the numeric columns, whatever the row
\* count of the result, without labels or with a label for the first column
kpi_request(names) ==
    IF names = << >> THEN {}
    ELSE {Metadata("chart10_columns", [numeric_cols |-> names]),
          Metadata("chart10_columns",
                   [numeric_cols |-> names,
                    labels |-> [name \in {names[1]} |-> "Total"]])}

\* the assignments to attrs['chart_metadata'] that display_chart made
written_by_display == select_and_show(classify(df), NoSelection).attrs_writes

\* df.attrs['chart_metadata'] = ... by the caller; a text generated before
\* is of the old metadata and is dropped
edit_metadata ==
    /\ pc \in {"returned", "edited"}
    /\ Len(attrs_writes) - Len(written_by_display) < MaxEdits
    /\ \E m \in edits(chart_metadata) \cup kpi_request(numeric_cols) :
          /\ m # chart_metadata
          /\ chart_metadata' = m
          /\ attrs_writes' = Append(attrs_writes, m.key)
    /\ pc' = "edited"
    /\ chart_code' = NoCode
    /\ UNCHANGED <<df, df_display, date_cols, numeric_cols, text_cols, builders,
                   alt_chart, host, session_state, selection_before, first_pass, value,
                   formatted_value>>

\* create_chartN(df, cols) called with the bindings of the metadata, for any
\* N in 1..9
call_builder ==
    /\ pc \in {"returned", "edited"}
    /\ chart_metadata.key # "none"
    /\ \E key \in known_keys \ {"chart10_columns"} :
       \E b \in {build(key, df_display, chart_metadata.cols, session_state)} :
           /\ alt_chart' = b.chart
           /\ host' = HostCalls(b.calls)
           /\ session_state' = b.session_state
           /\ builders' = Append(builders, key)
    /\ selection_before' = session_state
    /\ pc' = "built"
    /\ UNCHANGED <<df, df_display, date_cols, numeric_cols, text_cols,
                   chart_metadata, attrs_writes, first_pass, chart_code, value,
                   formatted_value>>

\* create_chart10(df, cols) called with the bindings of the metadata, from
\* display_chart or the page module (render_directly, pc "built in page")
\* or from elsewhere
call_create_chart10 ==
    /\ pc \in {"returned", "edited"}
    /\ chart_metadata.key # "none"
    /\ \E render_directly \in BOOLEAN :
       \E r \in {create_chart10(df_display, chart_metadata.cols, render_directly)} :
           /\ alt_chart' = r.result
           /\ host' = HostCalls(WarningCalls(r.warned)) \o r.tiles
           /\ pc' = IF render_directly THEN "built in page" ELSE "built"
    /\ builders' = Append(builders, "chart10_columns")
    /\ selection_before' = session_state
    /\ UNCHANGED <<df, df_display, date_cols, numeric_cols, text_cols,
                   chart_metadata, attrs_writes, session_state, first_pass,
                   chart_code, value,
                   formatted_value>>

\* create_chart_from_metadata(df)
call_create_chart_from_metadata ==
    /\ pc \in {"returned", "edited"}
    /\ \E b \in {create_chart_from_metadata(df_display, chart_metadata,
                                            session_state)} :
           /\ alt_chart' = b.chart
           /\ host' = HostCalls(b.calls)
           /\ session_state' = b.session_state
    /\ builders' = Append(builders, "create_chart_from_metadata")
    /\ selection_before' = session_state
    /\ pc' = "built"
    /\ UNCHANGED <<df, df_display, date_cols, numeric_cols, text_cols,
                   chart_metadata, attrs_writes, first_pass, chart_code, value,
                   formatted_value>>

\* generate_chart_code_for_dataframe(df)
call_generate_chart_code ==
    /\ pc \in {"returned", "edited"}
    /\ chart_code = NoCode
    /\ chart_code' = generate_chart_code_for_dataframe(chart_metadata)
    /\ UNCHANGED <<pc, df, df_display, date_cols, numeric_cols, text_cols,
                   chart_metadata, attrs_writes, builders, alt_chart, host,
                   session_state, selection_before, first_pass, value,
                   formatted_value>>

NextBuilders ==
    \/ display_chart
    \/ edit_metadata
    \/ call_builder
    \/ call_create_chart10
    \/ call_create_chart_from_metadata
    \/ call_generate_chart_code

SpecBuilders == InitBuilders /\ [][NextBuilders]_vars

----------------------------------------------------------------------------
(* Properties of the builders and the generated code *)

last_call == builders[Len(builders)]

\* the metadata is the one display_chart attached
Unedited == chart_metadata.key # "none" /\ attrs_writes = written_by_display

\* the builder of the metadata's archetype has just been called
BuilderOfArchetypeCalled ==
    /\ pc \in {"built", "built in page"}
    /\ builders # << >>
    /\ last_call = chart_metadata.key

\* create_chart(df) of the text generated for the metadata, run on the same
\* table under the selection the builder found
emitted_run ==
    exec_create_chart(generate_chart_code_for_dataframe(chart_metadata),
                      df_display, selection_before)

\* mark and encodings are equal; the tooltip is compared by its fields
same_chart(a, b) ==
    IF a.kind = "chart" /\ b.kind = "chart"
    THEN /\ [a EXCEPT !.tooltip = << >>] = [b EXCEPT !.tooltip = << >>]
         /\ Range(a.tooltip) = Range(b.tooltip)
    ELSE a = b

\* the st.metric calls among the host calls
RECURSIVE metrics_of(_)
metrics_of(calls) ==
    IF calls = << >> THEN << >>
    ELSE IF Head(calls).col # "" THEN <<Head(calls)>> \o metrics_of(Tail(calls))
    ELSE metrics_of(Tail(calls))

\* C16: for the metadata display_chart attached, the chart of the generated
\* text has the mark and the encodings of the chart the builder of the same
\* archetype returns for the same table and selection (for the KPI
\* archetype: the same tiles are drawn)
C16_EmittedMatchesBuilder ==
    (BuilderOfArchetypeCalled /\ Unedited) =>
        IF chart_metadata.key = "chart10_columns"
        THEN host = << >> \/ metrics_of(host) = emitted_run.tiles
        ELSE same_chart(emitted_run.chart, alt_chart)

\* the roles a builder reads a column name from, and those it reads a list
\* of names from
RequiredNames(key) ==
    CASE key = "chart1_columns" -> {"date_col", "numeric_col"}
      [] key = "chart2_columns" -> {"date_col", "num_col1", "num_col2"}
      [] key = "chart3_columns" -> {"date_col", "text_col", "numeric_col"}
      [] key = "chart4_columns" -> {"date_col", "numeric_col"}
      [] key = "chart5_columns" -> {"num_col1", "num_col2", "text_col"}
      [] key = "chart6_columns" -> {"num_col1", "num_col2", "text_col1", "text_col2"}
      [] key = "chart7_columns" -> {"num_col1", "num_col2", "num_col3", "text_col"}
      [] key = "chart8_columns" ->
            {"num_col1", "num_col2", "num_col3", "text_col1", "text_col2"}
      [] key = "chart9_columns" -> {"numeric_col"}
      [] OTHER -> {}

RequiredLists(key) ==
    CASE key \in {"chart4_columns", "chart9_columns"} -> {"text_cols"}
      [] key = "chart10_columns" -> {"numeric_cols"}
      [] OTHER -> {}

\* a required role of the metadata's archetype is not bound, or is bound to
\* the empty string or the empty list
RoleMissingOrEmpty(md) ==
    \/ \E r \in RequiredNames(md.key) : r \notin DOMAIN md.cols \/ md.cols[r] = ""
    \/ \E r \in RequiredLists(md.key) : r \notin DOMAIN md.cols \/ md.cols[r] = << >>

\* the body is st.error(message) and `return None`, nothing else
IsErrorBody(code) ==
    /\ code.error # ""
    /\ code.selectors = << >>
    /\ code.chart = None
    /\ code.kpi = << >>

\* C17: the generated text is always a function create_chart(df) with a
\* non-empty body; without metadata, with an archetype key that is not
\* known, or with a required role missing or empty, the body is the error
\* call followed by `return None`
C17_EmitterTotal ==
    chart_code.kind = "code" =>
        /\ chart_code.def = "create_chart(df)"
        /\ chart_code.error # "" \/ chart_code.chart # None \/ chart_code.kpi # << >>
        /\ ( \/ chart_metadata.key \notin known_keys
             \/ RoleMissingOrEmpty(chart_metadata) ) => IsErrorBody(chart_code)

\* a text was generated for metadata of a known archetype with a required
\* role bound to the empty string
C17_Witness ==
    /\ chart_code.kind = "code"
    /\ chart_metadata.key \in known_keys
    /\ \E r \in RequiredNames(chart_metadata.key) :
          r \in DOMAIN chart_metadata.cols /\ chart_metadata.cols[r] = ""
    /\ IsErrorBody(chart_code)

\* a name the archetype's builder reads from the bindings is not a column
\* of the table
AbsentBound(md, table) ==
    \/ \E r \in RequiredNames(md.key) \cap DOMAIN md.cols :
          md.cols[r] # "" /\ ~HasColumn(table, md.cols[r])
    \/ \E r \in RequiredLists(md.key) \cap DOMAIN md.cols :
          \E name \in Range(md.cols[r]) : ~HasColumn(table, name)

\* C18: a builder called with bindings that name a column the table does
\* not have returns None
C18_AbsentColumnGivesNone ==
    (BuilderOfArchetypeCalled /\ AbsentBound(chart_metadata, df_display)) =>
        alt_chart = None

\* a role the archetype's builder reads is not in the bindings
RoleMissing(md) ==
    \E r \in RequiredNames(md.key) : r \notin DOMAIN md.cols

\* display_chart returned without a chart and told the user so
NoChartMessage ==
    \E i \in 1..Len(host) : host[i].call = "st.markdown:No appropriate chart found"

\* C19: no call of a builder, of create_chart_from_metadata or of
\* display_chart leaves an exception with its caller: the value returned is
\* a chart, a KPI description or None, a builder that reads a role the
\* bindings do not have returns None, and display_chart without a chart
\* shows its message
C19_NoExceptionEscapes ==
    /\ alt_chart.kind # "raised"
    /\ (pc = "returned" /\ alt_chart = None) => NoChartMessage
    /\ (BuilderOfArchetypeCalled /\ RoleMissing(chart_metadata)) => alt_chart = None

\* a builder was called with bindings that lack a role it concatenates a
\* type suffix to, and returned None
C19_Witness ==
    /\ BuilderOfArchetypeCalled
    /\ RoleMissing(chart_metadata)
    /\ alt_chart = None

\* create_chart10 has just been called
KpiBuilderCalled ==
    /\ pc \in {"built", "built in page"}
    /\ builders # << >>
    /\ last_call = "chart10_columns"

\* C20: create_chart10 on a table that does not have exactly one row draws
\* no tile, warns that KPI tiles are for single row results and returns
\* None, whatever the bindings are
C20_KpiDeclinesRows ==
    (KpiBuilderCalled /\ df_display.nrows # 1) =>
        /\ alt_chart = None
        /\ metrics_of(host) = << >>
        /\ host = HostCalls(<<single_row_warning>>)

\* create_chart10 was called on a table of several rows with bindings that
\* name a numeric column of it, and declined
C20_Witness ==
    /\ KpiBuilderCalled
    /\ df_display.nrows > 1
    /\ "numeric_cols" \in DOMAIN chart_metadata.cols
    /\ \E name \in Range(chart_metadata.cols.numeric_cols) :
          HasColumn(df_display, name)
    /\ alt_chart = None
    /\ host = HostCalls(<<single_row_warning>>)

----------------------------------------------------------------------------
(* The value formatter of _render_kpi_tiles, lines 579-585 (the emitted     *)
(* text has the same statements, lines 718-724).  value is an integer;      *)
(* value/1_000_000 and value/1_000 are float divisions (the double nearest  *)
(* to the quotient) and the format specification .1f rounds that double to  *)
(* one decimal.                                                             *)

\* the largest mantissa of the values: values are m, 50 m and 50000 m for
\* m up to this, with either sign, and the values just under the thresholds
MaxMantissa == 68

Abs(v) == IF v < 0 THEN 0 - v ELSE v

\* 2^k mod 5
RECURSIVE pow2_mod5(_)
pow2_mod5(k) == IF k = 0 THEN 1 ELSE (2 * pow2_mod5(k - 1)) % 5

\* the exponent of the double: the largest e with 2^e * den <= num
RECURSIVE exponent(_, _, _)
exponent(num, den, e) ==
    IF 2 * den > num THEN e ELSE exponent(num, 2 * den, e + 1)

\* the significand of a double has 52 bits after the leading one
mantissa_bits == 52

\* A quotient (2t+1)/20 halfway between two one-decimal numbers is a double
\* only when it ends in .25 or .75; otherwise the division gives the double
\* next to it, above it when the first dropped bits of (2t+1)*2^(50-e)/5 are
\* more than one half.
double_is_above(t) ==
    LET n == 2 * t + 1
        e == exponent(n, 20, 0)
    IN  ((n % 5) * pow2_mod5(mantissa_bits - 2 - e)) % 5 \in {3, 4}

\* the number of tenths f"{num/den:.1f}" shows, for num >= den > 0: the
\* double nearest to num/den rounded to one decimal, an exact half to even
round_tenths(num, den) ==
    LET t == (10 * num) \div den
        r == (10 * num) % den
    IN  IF 2 * r < den THEN t
        ELSE IF 2 * r > den THEN t + 1
        ELSE IF (2 * t + 1) % 5 = 0 THEN (IF t % 2 = 0 THEN t ELSE t + 1)
        ELSE IF double_is_above(t) THEN t + 1
        ELSE t

\* a number of tenths written with one decimal
str_tenths(negative, t) ==
    (IF negative THEN <<"-">> ELSE << >>) \o str_int(t \div 10) \o <<".">>
        \o str_int(t % 10)

million == 1000000
thousand == 1000

\* the formatter with the thresholds compared by > in place of >=
format_value_above(v) ==
    IF Abs(v) > million
    THEN str_tenths(v < 0, round_tenths(Abs(v), million)) \o <<"M">>
    ELSE IF Abs(v) > thousand
    THEN str_tenths(v < 0, round_tenths(Abs(v), thousand)) \o <<"K">>
    ELSE str_tenths(v < 0, 10 * Abs(v))

\* lines 580-585
format_value(v) ==
    IF Abs(v) >= million
    THEN str_tenths(v < 0, round_tenths(Abs(v), million)) \o <<"M">>
    ELSE IF Abs(v) >= thousand
    THEN str_tenths(v < 0, round_tenths(Abs(v), thousand)) \o <<"K">>
    ELSE str_tenths(v < 0, 10 * Abs(v))

\* the values of the single row of a KPI result
KpiValues ==
    LET magnitudes == UNION {{m, 50 * m, 50000 * m} : m \in 0..MaxMantissa}
                         \cup {thousand - 1, million - 1}
    IN  magnitudes \cup {0 - m : m \in magnitudes}

InitFormat ==
    /\ pc = "tile"
    /\ value \in KpiValues
    /\ formatted_value = << >>
    /\ df = Table(1, <<Col("sales", "int64", 1, 1, FALSE)>>)
    /\ df_display = df
    /\ date_cols = << >>
    /\ numeric_cols = <<"sales">>
    /\ text_cols = << >>
    /\ chart_metadata = Metadata("chart10_columns", [numeric_cols |-> <<"sales">>])
    /\ attrs_writes = <<"chart10_columns">>
    /\ builders = <<"chart10_columns">>
    /\ alt_chart = None
    /\ host = HostCalls(<<"st.columns">>)
    /\ session_state = NoSelection
    /\ selection_before = NoSelection
    /\ first_pass = NoLists
    /\ chart_code = NoCode

\* one pass of the loop of _render_kpi_tiles: the value is formatted and
\* the tile is drawn
render_tile ==
    /\ pc = "tile"
    /\ formatted_value' = format_value(value)
    /\ host' = host \o metric_calls(df, <<"sales">>, NoLabels)
    /\ pc' = "drawn"
    /\ UNCHANGED <<df, df_display, date_cols, numeric_cols, text_cols,
                   chart_metadata, attrs_writes, builders, alt_chart,
                   session_state, selection_before, first_pass, chart_code, value>>

NextFormat == render_tile

SpecFormat == InitFormat /\ [][NextFormat]_vars

\* the number a digit string stands for
RECURSIVE int_of(_)
int_of(digits) ==
    LET d(c) == CHOOSE k \in 0..9 : str_int(k) = <<c>>
    IN  IF digits = << >> THEN 0
        ELSE 10 * int_of(SubSeq(digits, 1, Len(digits) - 1)) + d(digits[Len(digits)])

\* the parts of a formatted value: sign, digits before and after the point,
\* suffix
Parts(s) ==
    LET suffix   == IF s[Len(s)] \in {"M", "K"} THEN <<s[Len(s)]>> ELSE << >>
        negative == s[1] = "-"
        number   == SubSeq(s, IF negative THEN 2 ELSE 1, Len(s) - Len(suffix))
        point    == CHOOSE i \in 1..Len(number) : number[i] = "."
    IN  [negative |-> negative, suffix |-> suffix,
         whole |-> SubSeq(number, 1, point - 1),
         decimals |-> SubSeq(number, point + 1, Len(number))]

\* the divisor that goes with the magnitude of v
scale_of(v) ==
    IF Abs(v) >= million THEN million ELSE IF Abs(v) >= thousand THEN thousand ELSE 1

suffix_of(v) ==
    IF Abs(v) >= million THEN <<"M">> ELSE IF Abs(v) >= thousand THEN <<"K">> ELSE << >>

\* C21: the formatted value has the suffix of the magnitude of the value
\* (M from one million, K from one thousand, none below), a minus sign
\* exactly for a negative value, and one decimal, the number shown being
\* value / scale to within half a tenth; 2,500,000 gives "2.5M", 3,400
\* "3.4K", 42 "42.0" and -1,200,000 "-1.2M"
C21_FormatByMagnitude ==
    pc = "drawn" =>
        LET p == Parts(formatted_value)
            t == 10 * int_of(p.whole) + int_of(p.decimals)
        IN  /\ p.suffix = suffix_of(value)
            /\ p.negative = (value < 0)
            /\ Len(p.decimals) = 1
            /\ Len(p.whole) >= 1
            /\ 2 * Abs(10 * Abs(value) - t * scale_of(value)) <= scale_of(value)
            /\ value = 2500000 => formatted_value = <<"2", ".", "5", "M">>
            /\ value = 3400 => formatted_value = <<"3", ".", "4", "K">>
            /\ value = 42 => formatted_value = <<"4", "2", ".", "0">>
            /\ value = 0 - 1200000 => formatted_value = <<"-", "1", ".", "2", "M">>

\* a negative value of more than a million whose quotient needs rounding
\* has been formatted
C21_Witness ==
    /\ pc = "drawn"
    /\ value < 0 - million
    /\ Abs(value) % 100000 # 0
    /\ formatted_value[Len(formatted_value)] = "M"

----------------------------------------------------------------------------
(* Properties of one display_chart call *)

\* C22: one display_chart call assigns attrs['chart_metadata'] at most
\* once, and what it assigned is the metadata the table carries afterwards
C22_MetadataAssignedOnce ==
    pc = "returned" =>
        /\ Len(attrs_writes) <= 1
        /\ attrs_writes = IF chart_metadata.key = "none" THEN << >>
                          ELSE <<chart_metadata.key>>

\* a single-row result with the three telco columns, which also satisfies
\* the KPI rule, was displayed with the one assignment of the telco branch
C22_Witness ==
    /\ pc = "returned"
    /\ telco_rule(df_display)
    /\ df_display.nrows = 1
    /\ Len(numeric_cols) \in 1..MaxTiles
    /\ Len(text_cols) <= 1
    /\ attrs_writes = <<"chart5_columns">>

\* the names of `names` in the order the table has them
in_column_order(names, table) ==
    LET listed(col) == col.name \in Range(names)
    IN  names = NamesWhere(table.cols, listed)

\* no temporal column, one numeric column, a column that is not numeric,
\* and neither the telco branch nor the KPI rule takes the table
Rule9Signature ==
    /\ Returned
    /\ Len(date_cols) = 0
    /\ Len(numeric_cols) = 1
    /\ Names(df_display) \ Range(numeric_cols) # {}
    /\ ~telco_rule(df_display)
    /\ ~kpi_rule(df_display.nrows, Len(date_cols), Len(text_cols), Len(numeric_cols))

\* C23: a table of that signature gets archetype 9 with a text_cols list
\* that is not empty, has at most 5 names, all of them categorical columns
\* of the table (members of the classification's text_cols), in column order
C23_Chart9BindsCategorical ==
    Rule9Signature =>
        /\ chart_metadata.key = "chart9_columns"
        /\ chart_metadata.cols.text_cols # << >>
        /\ Len(chart_metadata.cols.text_cols) <= MaxChart9TextCols
        /\ in_column_order(chart_metadata.cols.text_cols, df_display)
        /\ Range(chart_metadata.cols.text_cols) \subseteq Range(text_cols)

\* the names bound to those of `roles` the bindings have, in role order
bound_names(cols, roles) ==
    LET has(r) == r \in DOMAIN cols
        held   == SelectSeq(roles, has)
    IN  [i \in 1..Len(held) |-> cols[held[i]]]

\* the columns of the table that are in a class list, in column order
of_class(table, class) ==
    LET member(col) == col.name \in Range(class)
    IN  NamesWhere(table.cols, member)

\* C24: outside the telco branch, the numeric roles of a binding hold the
\* first numeric columns of the table in column order, the text roles the
\* first categorical ones, and no column is bound to two roles
C24_FirstColumnsDistinct ==
    (Returned /\ ~telco_rule(df_display) /\ chart_metadata.key # "none") =>
        LET cols     == chart_metadata.cols
            numerics == bound_names(cols, <<"numeric_col", "num_col1", "num_col2",
                                           "num_col3">>)
            texts    == bound_names(cols, <<"text_col", "text_col1", "text_col2">>)
            dates    == bound_names(cols, <<"date_col">>)
            listed   == IF "text_cols" \in DOMAIN cols THEN cols.text_cols
                        ELSE IF "numeric_cols" \in DOMAIN cols THEN cols.numeric_cols
                        ELSE << >>
        IN  /\ numerics = Take(of_class(df_display, numeric_cols), Len(numerics))
            /\ texts = Take(of_class(df_display, text_cols), Len(texts))
            /\ IsInjective(dates \o numerics \o texts \o listed)

----------------------------------------------------------------------------
(* Properties of the KPI tiles *)

\* create_chart10 has just returned a KPI record
KpiSucceeded == KpiBuilderCalled /\ alt_chart.kind = "kpi_tiles"

\* the host calls are one st.metric per name of `names`, in order, each
\* labelled with the label given for the column or else with its name
tiles_for(calls, names, labels) ==
    /\ Len(calls) = Len(names)
    /\ \A i \in 1..Len(names) :
          /\ calls[i].call = "st.metric"
          /\ calls[i].col = names[i]
          /\ calls[i].label = IF names[i] \in DOMAIN labels THEN labels[names[i]]
                              ELSE names[i]

given_labels ==
    IF "labels" \in DOMAIN chart_metadata.cols THEN chart_metadata.cols.labels
    ELSE NoLabels

\* the record has the tile count min(number of bound columns, 4)
tile_count_right ==
    /\ alt_chart.n_cols <= MaxTiles
    /\ alt_chart.n_cols <= Len(chart_metadata.cols.numeric_cols)
    /\ alt_chart.n_cols = MaxTiles
          \/ alt_chart.n_cols = Len(chart_metadata.cols.numeric_cols)

\* C25 as stated: every successful create_chart10 call with bound numeric
\* columns has drawn one tile per bound column, at most 4, labelled with
\* the custom label or the column name, and returns the tile count
C25_TilePerColumn ==
    (KpiSucceeded /\ "numeric_cols" \in DOMAIN chart_metadata.cols) =>
        /\ tile_count_right
        /\ tiles_for(host, Take(chart_metadata.cols.numeric_cols, MaxTiles),
                     given_labels)

\* C25 amended: that holds for a call made from display_chart or the page
\* module; a successful call from any other caller returns the same record
\* and draws no tile
C25_TilePerColumnInPage ==
    (KpiSucceeded /\ "numeric_cols" \in DOMAIN chart_metadata.cols) =>
        /\ tile_count_right
        /\ pc = "built in page" =>
              tiles_for(host, Take(chart_metadata.cols.numeric_cols, MaxTiles),
                        given_labels)
        /\ pc = "built" => host = << >>

\* create_chart10 called from the page with five bound columns and a label
\* for the first has drawn four tiles
C25_Witness ==
    /\ KpiSucceeded
    /\ pc = "built in page"
    /\ "numeric_cols" \in DOMAIN chart_metadata.cols
    /\ Len(chart_metadata.cols.numeric_cols) > MaxTiles
    /\ given_labels # NoLabels
    /\ Len(host) = MaxTiles
    /\ host[1].label = "Total"

----------------------------------------------------------------------------
(* The two selectors of create_chart9 *)

x_key == widget_key("chart9_select", df_display)
color_key == widget_key("chart9_color_select", df_display)

\* a result of archetype 9 is on the page with its two selectors
Chart9Shown ==
    /\ pc \in {"returned", "rerun", "selected"}
    /\ chart_metadata.key = "chart9_columns"
    /\ alt_chart.kind = "chart"

\* C26: the x-axis selection and the color selection of archetype 9 are
\* stored under two keys, both different from the key of archetype 4's
\* selector for the same table; both are set after the builder ran, and a
\* change of one by the user leaves the other as it was
C26_TwoSelectors ==
    Chart9Shown =>
        /\ x_key # color_key
        /\ widget_key("chart4_select", df_display) \notin {x_key, color_key}
        /\ {x_key, color_key} \subseteq DOMAIN session_state
        /\ pc = "selected" =>
              /\ {x_key, color_key} \subseteq DOMAIN selection_before
              /\ \/ session_state[x_key] = selection_before[x_key]
                 \/ session_state[color_key] = selection_before[color_key]

\* the user changed the x-axis selection of an archetype 9 chart and the
\* color selection kept its other value
C26_Witness ==
    /\ Chart9Shown
    /\ pc = "selected"
    /\ session_state[x_key] # selection_before[x_key]
    /\ session_state[color_key] = selection_before[color_key]
    /\ session_state[color_key] # session_state[x_key]

----------------------------------------------------------------------------
(* What display_chart shows *)

called(name) == \E i \in 1..Len(host) : host[i].call = name

\* the outcomes the user can see after display_chart: a chart handed to
\* st.altair_chart, KPI tiles, the no-chart message, an error message
Outcomes ==
    { o \in {"st.altair_chart", "st.metric",
             "st.markdown:No appropriate chart found", "st.error"} : called(o) }

\* C27: display_chart ends with exactly one of the four outcomes shown
C27_OneOutcome == Returned => Cardinality(Outcomes) = 1

\* what create_chart10 returned to display_chart in the KPI branch
kpi_result ==
    create_chart10(df_display, chart_metadata.cols, TRUE).result

\* C28: display_chart flags the KPI tiles as rendered (and shows the
\* 'Open in Designer' button instead of the no-chart message) only when
\* create_chart10 returned a KPI record
C28_FlagOnlyForRecord ==
    (Returned /\ alt_chart = KPI_RENDERED) =>
        /\ chart_metadata.key = "chart10_columns"
        /\ kpi_result.kind = "kpi_tiles"

\* the columns of the tiles drawn, in order
tile_columns == [i \in 1..Len(metrics_of(host)) |-> metrics_of(host)[i].col]

\* C29: one create_chart10 call draws each tile at most once, and a call
\* that returns None has drawn no tile
C29_TilesOnce ==
    KpiBuilderCalled =>
        /\ IsInjective(tile_columns)
        /\ alt_chart = None => tile_columns = << >>

\* ---------------------------------------------------------------------
\* Dictionaries with several archetype keys, and the two chart modules:
\* src/utils/chart_utils.py (imported by the page) and the older
\* src/chart_utils.py
\* ---------------------------------------------------------------------

\* the largest number of archetype keys in one chart_metadata dictionary
MaxKeys == 2

\* the if/elif chain of create_chart_from_metadata in src/utils/chart_utils.py
dispatch_order ==
    <<"chart1_columns", "chart2_columns", "chart3_columns", "chart4_columns",
      "chart5_columns", "chart6_columns", "chart7_columns", "chart8_columns",
      "chart9_columns", "chart10_columns">>

\* the if/elif chain of generate_chart_code_for_dataframe in
\* src/utils/chart_utils.py: chart10 is tested first
emit_order ==
    <<"chart10_columns", "chart1_columns", "chart2_columns", "chart3_columns",
      "chart4_columns", "chart5_columns", "chart6_columns", "chart7_columns",
      "chart8_columns", "chart9_columns">>

\* both if/elif chains of src/chart_utils.py: no chart10 branch
root_order ==
    <<"chart1_columns", "chart2_columns", "chart3_columns", "chart4_columns",
      "chart5_columns", "chart6_columns", "chart7_columns", "chart8_columns",
      "chart9_columns">>

\* the key of the first branch of the chain whose test succeeds
first_key(order, dict) ==
    LET hits == {i \in 1..Len(order) : order[i] \in DOMAIN dict}
    IN  IF hits = {} THEN "no branch"
        ELSE order[CHOOSE i \in hits : \A j \in hits : i <= j]

\* the branch taken: its key and the bindings it reads, dict[key]
branch(order, dict) ==
    LET key == first_key(order, dict)
    IN  IF key = "no branch" THEN [key |-> key, cols |-> << >>]
        ELSE [key |-> key, cols |-> dict[key]]

\* create_chart9 of src/chart_utils.py: one selector, no color, no stacking
create_chart9_root(table, cols, ss) ==
    LET opts == IF "text_cols" \in DOMAIN cols THEN cols.text_cols ELSE << >>
        key  == widget_key("chart9_select", table)
        ss1  == selector_init(ss, key, opts)
        sel  == ss1[key]
    IN  IF opts = << >> THEN Built(None, << >>, ss)
        ELSE IF Bound(cols, {"numeric_col"})
        THEN Built(AltChart("bar", <<sel, "N", "-y">>,
                            <<cols.numeric_col, "Q", "">>, << >>, << >>, << >>,
                            << >>, <<sel, cols.numeric_col>>),
                   <<"st.selectbox">>, ss1)
        ELSE Built(except_Exception(TypeError), <<"st.selectbox">>, ss1)

\* create_chart1 .. create_chart9 of src/chart_utils.py: the builders of the
\* page's module without the st.text caption
root_build(key, table, cols, ss) ==
    LET b == build(key, table, cols, ss)
        not_caption(c) == c # "st.text"
    IN  IF key = "chart9_columns" THEN create_chart9_root(table, cols, ss)
        ELSE [b EXCEPT !.calls = SelectSeq(@, not_caption)]

\* create_chart_from_metadata of src/chart_utils.py on a dictionary
root_create_chart_from_metadata(table, dict, ss) ==
    LET md == branch(root_order, dict)
        b  == root_build(md.key, table, md.cols, ss)
    IN  IF md.key = "no branch" THEN Built(None, << >>, ss)
        ELSE [b EXCEPT !.chart = except_Exception(@)]

\* generate_chart_code_for_dataframe of src/chart_utils.py on the branch taken
root_generate_chart_code(md) ==
    LET cols == md.cols
    IN  IF md.key = "chart9_columns"
        THEN IF ~name_given(cols, "numeric_col") \/ ~list_given(cols, "text_cols")
             THEN ErrorBody("Missing required columns for Bar Chart with Text Column Selector")
             ELSE Code("", <<Selector("chart9_select", cols.text_cols)>>,
                       AltChart("bar", <<selected_text_col, "N", "-y">>,
                                <<cols.numeric_col, "Q", "">>, << >>, << >>,
                                << >>, << >>,
                                <<selected_text_col, cols.numeric_col>>),
                       << >>)
        ELSE IF md.key \in Range(root_order)
        THEN generate_chart_code_for_dataframe(md)
        ELSE ErrorBody("No valid chart type found in metadata. Please provide chart configuration.")

\* a query result with enough columns of every class for every archetype
DispatchColumns(n) ==
    <<Col("order_date", "datetime64", n, n, FALSE),
      Col("cell_id_display", "object", n, 0, FALSE),
      Col("shipped", "object", n, 0, FALSE),
      Col("total_tickets", "int64", n, n, FALSE),
      Col("sales", "float64", n, n, FALSE),
      Col("Holiday", "int64", n, n, FALSE)>>

\* the dictionaries a caller can attach: 1..MaxKeys archetype keys, each
\* with the bindings the rule of its archetype writes for the table
Dictionaries(table) ==
    { [key \in keys |-> bindings(key, classify(table))] :
        keys \in { ks \in SUBSET known_keys :
                     Cardinality(ks) >= 1 /\ Cardinality(ks) <= MaxKeys } }

InitDispatch ==
    /\ pc = "attached"
    /\ \E n \in RowCounts : df = Table(n, DispatchColumns(n))
    /\ df_display = df
    /\ date_cols = << >>
    /\ numeric_cols = << >>
    /\ text_cols = << >>
    /\ chart_metadata \in Dictionaries(df)
    /\ attrs_writes = << >>
    /\ builders = << >>
    /\ alt_chart = None
    /\ host = << >>
    /\ session_state = NoSelection
    /\ selection_before = NoSelection
    /\ first_pass = NoLists
    /\ chart_code = NoCode
    /\ value = 0
    /\ formatted_value = << >>

\* the builders a dispatcher called: the key of the branch, when one is taken
with_branch(calls, key) ==
    IF key = "no branch" THEN calls ELSE Append(calls, key)

utils_create_chart_from_metadata ==
    /\ pc = "attached"
    /\ \E b \in {create_chart_from_metadata(
                     df_display, branch(dispatch_order, chart_metadata),
                     session_state)} :
           /\ alt_chart' = b.chart
           /\ host' = HostCalls(b.calls)
           /\ session_state' = b.session_state
    /\ builders' = with_branch(builders, first_key(dispatch_order, chart_metadata))
    /\ selection_before' = session_state
    /\ pc' = "utils: dispatched"
    /\ UNCHANGED <<df, df_display, date_cols, numeric_cols, text_cols,
                   chart_metadata, attrs_writes, first_pass, chart_code, value,
                   formatted_value>>

utils_generate_chart_code ==
    /\ pc = "utils: dispatched"
    /\ chart_code' =
           generate_chart_code_for_dataframe(branch(emit_order, chart_metadata))
    /\ pc' = "utils: emitted"
    /\ UNCHANGED <<df, df_display, date_cols, numeric_cols, text_cols,
                   chart_metadata, attrs_writes, builders, alt_chart, host,
                   session_state, selection_before, first_pass, value,
                   formatted_value>>

root_dispatch ==
    /\ pc = "utils: emitted"
    /\ \E b \in {root_create_chart_from_metadata(df_display, chart_metadata,
                                                 session_state)} :
           /\ alt_chart' = b.chart
           /\ host' = HostCalls(b.calls)
           /\ session_state' = b.session_state
    /\ builders' = with_branch(builders, first_key(root_order, chart_metadata))
    /\ selection_before' = session_state
    /\ pc' = "root: dispatched"
    /\ UNCHANGED <<df, df_display, date_cols, numeric_cols, text_cols,
                   chart_metadata, attrs_writes, first_pass, chart_code, value,
                   formatted_value>>

root_emit ==
    /\ pc = "root: dispatched"
    /\ chart_code' = root_generate_chart_code(branch(root_order, chart_metadata))
    /\ pc' = "root: emitted"
    /\ UNCHANGED <<df, df_display, date_cols, numeric_cols, text_cols,
                   chart_metadata, attrs_writes, builders, alt_chart, host,
                   session_state, selection_before, first_pass, value,
                   formatted_value>>

NextDispatch ==
    \/ utils_create_chart_from_metadata
    \/ utils_generate_chart_code
    \/ root_dispatch
    \/ root_emit

SpecDispatch == InitDispatch /\ [][NextDispatch]_vars

\* the archetypes of the dictionary whose code the page's emitter returned
utils_emitted ==
    { key \in DOMAIN chart_metadata :
        chart_code = generate_chart_code_for_dataframe(
                         [key |-> key, cols |-> chart_metadata[key]]) }

\* the archetypes of the dictionary whose code the older emitter returned
root_emitted ==
    { key \in DOMAIN chart_metadata \cap Range(root_order) :
        chart_code = root_generate_chart_code(
                         [key |-> key, cols |-> chart_metadata[key]]) }

\* the builder the page's dispatcher called, and the one the older called
utils_called == SubSeq(builders, 1, 1)
root_called == SubSeq(builders, 2, Len(builders))

\* C30: for every chart_metadata dictionary, dictionaries with several
\* archetype keys included, the dispatcher and the emitter select the same
\* archetype, and the two modules agree on it
C30_SameArchetype ==
    /\ pc = "utils: emitted" => utils_emitted = Range(utils_called)
    /\ pc = "root: dispatched" => root_called = utils_called
    /\ pc = "root: emitted" => root_emitted = Range(utils_called)

====
